---------------------------- MODULE Spec2Model ----------------------------
(***************************************************************************)
(* Offline-first synchronisation engine of the sharedlist client:          *)
(* the pending-operation queue (storage/syncQueue.ts), the item cache and  *)
(* its merge (storage/itemsStore.ts), the list registry                    *)
(* (storage/listsStore.ts), the Sync Worker (sync/syncWorker.ts), the      *)
(* reconciliation worker (sync/healthAndSyncWorker.ts) and the events      *)
(* they emit (events/syncEvents.ts, events/itemSyncEvents.ts).             *)
(*                                                                         *)
(* Specifications:                                                         *)
(*   Spec       the foreground context: its Sync Worker timer, the         *)
(*              reconciliation tick and the UI mutations, interleaved      *)
(*   RaceSpec   Sync Worker runs of two JavaScript contexts that share     *)
(*              the persisted state only, and the clock                    *)
(*   MergeSpec  mergeRemoteItemsIntoLocal applied to bounded inputs        *)
(*   QueueSpec  the queue operations applied in any order                  *)
(*   LiveSpec   the Sync Worker on a fair timer, service reachable         *)
(***************************************************************************)
EXTENDS Integers, Sequences, FiniteSets, TLC

VARIABLES
    queue,        \* AsyncStorage "sharedlist.syncQueue": Seq of PendingOperation
    lockRec,      \* AsyncStorage "sharedlist.syncWorker.lock": NoLock or [owner, ts]
    lists,        \* AsyncStorage "sharedlist.lists": Seq of StoredList as written
    items,        \* AsyncStorage "sharedlist.items.<listId>": listId -> Seq of StoredItemPlain
    srvLists,     \* remote service: ids of the lists that exist
    srvItems,     \* remote service: Seq of item rows, item_id = index
    srvRev,       \* remote service: last value of list_items_rev_seq
    clock,        \* Date.now()
    nextOpId,     \* next uuid handed out for a PendingOperation
    nextRunId,    \* next runId of runSyncOnce
    running,      \* globalState.running of each JavaScript context
    pc,           \* position of each context's runSyncOnce invocation
    run,          \* locals of each context's runSyncOnce invocation
    tpc,          \* position of runHealthAndSyncOnce
    tick,         \* locals of runHealthAndSyncOnce
    effects,      \* remote calls made and events emitted by the last step, in order
    mergeIn,      \* MergeSpec: the inputs the merge was applied to
    qHist,        \* QueueSpec: what the callers did to each create_item operation
    listeners,    \* the listener arrays of syncEvents and itemSyncEvents, by channel
    lastHealth,   \* syncEvents.lastHealth: <<>> for null, else <<ok>>
    closures,     \* the unsubscribe functions returned so far: handler -> its channel, and whether it was called
    invoked,      \* the handler calls made by the last step, in order
    qio,          \* the syncQueue call each caller has in flight, with the queue it loaded
    ticks,        \* OverlapSpec: the locals of the runHealthAndSyncOnce invocations in flight
    screen,       \* the mounted ListScreen: its listId and its items state
    timers        \* foregroundIntervalId, the interval timers alive, the start calls in flight

storeVars == <<queue, lockRec, lists, items>>
srvVars   == <<srvLists, srvItems, srvRev>>
syncVars  == <<nextRunId, running, pc, run>>
tickVars  == <<tpc, tick>>
auxVars   == <<mergeIn, qHist>>
busVars   == <<listeners, lastHealth, closures, invoked>>
ioVars    == <<qio, ticks, screen, timers>>
vars == <<queue, lockRec, lists, items, srvLists, srvItems, srvRev, clock,
          nextOpId, nextRunId, running, pc, run, tpc, tick, effects,
          mergeIn, qHist, listeners, lastHealth, closures, invoked, qio, ticks,
          screen, timers>>

-----------------------------------------------------------------------------
(* Values *)

\* null in a numeric field (itemId, lastSeenRev, lastRemoteRev, latest_rev);
\* the ids and revisions the service issues start at 1
NULL == 0

\* AsyncStorage.getItem(LOCK_KEY) returning null
NoLock == [owner |-> 0, ts |-> 0]

Min(a, b) == IF a < b THEN a ELSE b

SeqToSet(s) == {s[i] : i \in 1..Len(s)}

\* FlagState (models/list.ts)
NoFlags == [checked |-> FALSE, crossed |-> FALSE, highlighted |-> FALSE]
Checked == [checked |-> TRUE, crossed |-> FALSE, highlighted |-> FALSE]

-----------------------------------------------------------------------------
(* storage/itemsStore.ts *)

\* Map.prototype.set: an existing key keeps its place, a new key goes last
MapSet(m, it) ==
    IF \E i \in 1..Len(m) : m[i].itemId = it.itemId
    THEN [i \in 1..Len(m) |-> IF m[i].itemId = it.itemId THEN it ELSE m[i]]
    ELSE Append(m, it)

\* Map.prototype.delete
MapDelete(m, id) == SelectSeq(m, LAMBDA x : x.itemId # id)

IsLocalOnly(it) == it.itemId = NULL

\* the mutant of ApplyRemote that upserts a tombstone like any other snapshot
ApplyRemoteNoTombstone(byId, r) ==
    MapSet(byId, [itemId |-> r.itemId, label |-> r.label, flags |-> r.flags])

\* one iteration of "for (const r of remoteItems)"
ApplyRemote(byId, r) ==
    IF r.deleted
    THEN MapDelete(byId, r.itemId)
    ELSE MapSet(byId, [itemId |-> r.itemId, label |-> r.label, flags |-> r.flags])

\* one iteration of "for (const it of local)" building byId
IndexLocal(byId, it) == IF it.itemId # NULL THEN MapSet(byId, it) ELSE byId

RECURSIVE IndexLocals(_, _)
\* "for (const it of local)": byId after the loop
IndexLocals(byId, local) ==
    IF local = <<>> THEN byId
    ELSE IndexLocals(IndexLocal(byId, Head(local)), Tail(local))

RECURSIVE ApplyRemotes(_, _)
\* "for (const r of remoteItems)": byId after the loop
ApplyRemotes(byId, remoteItems) ==
    IF remoteItems = <<>> THEN byId
    ELSE ApplyRemotes(ApplyRemote(byId, Head(remoteItems)), Tail(remoteItems))

\* the mutant of the merge that forgets the local-only items
MergeDropLocalOnly(local, remoteItems) ==
    IF Len(remoteItems) = 0 THEN local
    ELSE ApplyRemotes(IndexLocals(<<>>, local), remoteItems)

\* mergeRemoteItemsIntoLocal: the item list it saves (the stored one when it
\* returns without saving)
MergeRemoteItemsIntoLocal(local, remoteItems) ==
    IF Len(remoteItems) = 0 THEN local
    ELSE SelectSeq(local, IsLocalOnly)
         \o ApplyRemotes(IndexLocals(<<>>, local), remoteItems)

-----------------------------------------------------------------------------
(* storage/syncQueue.ts *)

\* A PendingOperation. One record shape for the four kinds: itemId is NULL
\* for create_list and create_item, and the payload fields hold
\* metaCiphertextB64/metaNonceB64 for create_list and are NoCipher for
\* delete_item.
MkOp(id, type, listId, itemId, ct, n) ==
    [id |-> id, type |-> type, listId |-> listId, itemId |-> itemId,
     ciphertextB64 |-> ct, nonceB64 |-> n]

\* the mutant of the enqueue functions that puts the operation at the head
EnqueueAtHead(q, op) == <<op>> \o q

\* enqueueCreateList / enqueueCreateItem / enqueueUpdateItem /
\* enqueueDeleteItem: loadQueue, queue.push(op), saveQueue
Enqueue(q, op) == Append(q, op)

\* removeOperations(ids): the queue it leaves in storage
RemoveOperations(q, ids) ==
    IF Cardinality(ids) = 0 THEN q
    ELSE SelectSeq(q, LAMBDA op : op.id \notin ids)

\* queue.findIndex((op) => op.type === "create_item" && op.id === opId); 0 for -1
FindCreateItem(q, opId) ==
    LET hits == {i \in 1..Len(q) : q[i].type = "create_item" /\ q[i].id = opId}
    IN IF hits = {} THEN 0 ELSE CHOOSE i \in hits : \A j \in hits : i <= j

\* the mutant of the rewrite that queues a second create_item instead
UpdateByAppending(q, opId, ct, n) ==
    LET idx == FindCreateItem(q, opId)
    IN IF idx = 0 THEN q
       ELSE Append(q, [q[idx] EXCEPT !.ciphertextB64 = ct, !.nonceB64 = n])

\* updateCreateItemOpCipher({opId, ciphertextB64, nonceB64}): the queue it
\* leaves in storage
UpdateCreateItemOpCipher(q, opId, ct, n) ==
    LET idx == FindCreateItem(q, opId)
    IN IF idx = 0 THEN q
       ELSE [q EXCEPT ![idx] = [@ EXCEPT !.ciphertextB64 = ct, !.nonceB64 = n]]

-----------------------------------------------------------------------------
(* crypto/e2e.ts *)

\* btoa("nonce"): encryptJson uses one fixed nonce
FixedNonce == "bm9uY2U="

\* the payload fields of an operation kind that has none
NoCipher == <<>>
NoNonce == ""

\* encryptJson(key, data): btoa(JSON.stringify(data) + "|" + nonce), written
\* <<"b64", data>>; any other tuple is a string atob or JSON.parse rejects
EncryptJson(data) == [ciphertextB64 |-> <<"b64", data>>, nonceB64 |-> FixedNonce]

\* whether decryptJson(key, ciphertextB64, nonceB64) returns
CanDecrypt(ct) == Len(ct) = 2 /\ ct[1] = "b64"

\* decryptJson(key, ciphertextB64, nonceB64) when it returns
DecryptJson(ct) == ct[2]

-----------------------------------------------------------------------------
(* storage/listsStore.ts *)

\* a StoredList as CreateListScreen.handleCreate writes it when the online
\* creation failed (listKey is never changed by the workers and is left out)
NewPendingList(listId, name) ==
    [listId |-> listId, name |-> name, lastSeenRev |-> NULL,
     lastRemoteRev |-> NULL, pendingCreate |-> TRUE, removedFromServer |-> FALSE]

\* the .map of loadStoredLists: lastRemoteRev defaults to lastSeenRev
NormalizeList(l) ==
    [l EXCEPT !.lastRemoteRev = IF l.lastRemoteRev # NULL THEN l.lastRemoteRev
                                ELSE l.lastSeenRev]

\* loadStoredLists(): what a reader of the registry gets
LoadStoredLists(raw) == [i \in 1..Len(raw) |-> NormalizeList(raw[i])]

\* current.findIndex((l) => l.listId === listId); 0 for -1
FindList(ls, listId) ==
    LET hits == {i \in 1..Len(ls) : ls[i].listId = listId}
    IN IF hits = {} THEN 0 ELSE CHOOSE i \in hits : \A j \in hits : i <= j

\* updateLastSeenRev(listId, lastSeenRev): the registry it leaves in storage
UpdateLastSeenRev(raw, listId, rev) ==
    LET current == LoadStoredLists(raw)
        idx == FindList(current, listId)
    IN IF idx = 0 THEN raw ELSE [current EXCEPT ![idx].lastSeenRev = rev]

\* markListSynced(listId): the registry it leaves in storage
MarkListSynced(raw, listId) ==
    LET current == LoadStoredLists(raw)
        idx == FindList(current, listId)
    IN IF idx = 0 THEN raw
       ELSE [current EXCEPT ![idx].pendingCreate = FALSE,
                            ![idx].removedFromServer = FALSE]

\* upsertStoredList(list) for a list that is not in the registry yet
UpsertStoredList(raw, list) ==
    LET current == LoadStoredLists(raw)
        idx == FindList(current, list.listId)
    IN IF idx = 0 THEN Append(current, list) ELSE [current EXCEPT ![idx] = list]

\* MyListsScreen.handleOpenList: the registry it saves
OpenList(raw, listId) ==
    LET stored == LoadStoredLists(raw)
    IN [i \in 1..Len(stored) |->
          IF stored[i].listId = listId
          THEN [stored[i] EXCEPT !.lastSeenRev =
                   IF stored[i].lastRemoteRev # NULL THEN stored[i].lastRemoteRev
                   ELSE stored[i].lastSeenRev]
          ELSE stored[i]]

-----------------------------------------------------------------------------
(* Bounds and the values the model draws its inputs from *)

MaxOps == 2            \* operations the UI enqueues in one behaviour
MaxRuns == 2           \* runSyncOnce invocations that get past the running flag
MaxClockSteps == 2     \* timer periods that elapse
MaxSrvItems == 2       \* item rows the service stores
MaxRev == 3            \* revisions the service issues

Ctx == {"fg", "bg"}    \* the foreground context and the out-of-process wake
ListIds == {"a"}

\* the ListItemPlain values the UI encrypts: a new item, and it with the
\* "checked" flag toggled
ItemPlains == {[label |-> "A", flags |-> NoFlags], [label |-> "A", flags |-> Checked]}
MetaPlain(listId) == [name |-> "A"]

-----------------------------------------------------------------------------
(* The remote service, api/client.ts and the REST contract *)

\* ApiError messages, `HTTP ${status}: ${body}`, and fetch's own rejection
MsgRate == "HTTP 429: Too many requests"
MsgDup == "HTTP 409: List already exists"
MsgItemNotFound == "HTTP 404: Item not found"
MsgListNotFound == "HTTP 404: List not found"
MsgListGone == "HTTP 410: Gone"
MsgOther == "Network request failed"

\* msg.includes("Too many requests")
IsRateLimit(msg) == msg = MsgRate
\* msg.includes("already exists") || msg.includes("duplicate key") || msg.includes("lists_pkey")
IsDuplicate(msg) == msg = MsgDup
\* msg.includes("Item not found")
IsItemNotFound(msg) == msg = MsgItemNotFound

\* the result of an awaited api call as the caller sees it
Resolved(itemId, rev) == [ok |-> TRUE, msg |-> "", item_id |-> itemId, rev |-> rev]
Rejected(msg) == [ok |-> FALSE, msg |-> msg, item_id |-> NULL, rev |-> NULL]
NoRes == Rejected("")

\* whether the service holds a live row for the item an operation targets
SrvHasItem(op) ==
    /\ op.itemId \in 1..Len(srvItems)
    /\ srvItems[op.itemId].listId = op.listId
    /\ ~srvItems[op.itemId].deleted

\* whether the service would carry out the request of op now
SrvAccepts(op) ==
    CASE op.type = "create_list" -> op.listId \notin srvLists
      [] op.type = "create_item" ->
            /\ op.listId \in srvLists
            /\ Len(srvItems) < MaxSrvItems /\ srvRev < MaxRev
      [] op.type = "update_item" -> SrvHasItem(op) /\ srvRev < MaxRev
      [] op.type = "delete_item" -> ~SrvHasItem(op) \/ srvRev < MaxRev

\* the error messages the service or the network may answer op with
SrvErrors(op) ==
    {MsgRate, MsgOther, MsgItemNotFound}
    \cup (IF op.type = "create_list" /\ op.listId \in srvLists THEN {MsgDup} ELSE {})
    \cup (IF op.type = "create_item" /\ op.listId \notin srvLists
          THEN {MsgListNotFound} ELSE {})

\* the service carrying out the request of op; acked says whether the
\* response reaches the caller (ghost fields byOp, acked: which operation's
\* request made the row, and whether apiCreateItem resolved for it)
SrvApply(op, acked) ==
    CASE op.type = "create_list" ->
            /\ srvLists' = srvLists \cup {op.listId}
            /\ UNCHANGED <<srvItems, srvRev>>
      [] op.type = "create_item" ->
            /\ srvItems' = Append(srvItems,
                  [listId |-> op.listId, ciphertextB64 |-> op.ciphertextB64,
                   nonceB64 |-> op.nonceB64, rev |-> srvRev + 1,
                   deleted |-> FALSE, byOp |-> op.id, acked |-> acked])
            /\ srvRev' = srvRev + 1
            /\ UNCHANGED srvLists
      [] op.type = "update_item" ->
            /\ srvItems' = [srvItems EXCEPT ![op.itemId] =
                  [@ EXCEPT !.ciphertextB64 = op.ciphertextB64,
                            !.nonceB64 = op.nonceB64, !.rev = srvRev + 1]]
            /\ srvRev' = srvRev + 1
            /\ UNCHANGED srvLists
      [] op.type = "delete_item" ->
            IF SrvHasItem(op)
            THEN /\ srvItems' = [srvItems EXCEPT ![op.itemId] =
                        [@ EXCEPT !.deleted = TRUE, !.rev = srvRev + 1]]
                 /\ srvRev' = srvRev + 1
                 /\ UNCHANGED srvLists
            ELSE UNCHANGED <<srvLists, srvItems, srvRev>>

\* what the caller of the request of op gets back when the service carried
\* it out and the response arrived
SrvResponse(op) ==
    CASE op.type = "create_item" -> Resolved(Len(srvItems) + 1, srvRev + 1)
      [] op.type = "update_item" -> Resolved(op.itemId, srvRev + 1)
      [] OTHER -> Resolved(NULL, NULL)

-----------------------------------------------------------------------------
(* What a step does that its caller or a subscriber can observe *)

\* the ItemCipher a resolved apiCreateItem / apiUpdateItem returned, as far as
\* its readers use it: item_id and rev
ItemOf(res) == [item_id |-> res.item_id, rev |-> res.rev]
\* no item
NoItem == [item_id |-> NULL, rev |-> NULL]

\* an awaited remote call and whether it resolved
CallFx(api, by, ok) ==
    [kind |-> "call", name |-> api, by |-> by, ok |-> ok, listId |-> "",
     opId |-> 0, err |-> "", item |-> NoItem]
\* an awaited remote call that rejected with the message msg
CallFailedFx(api, by, msg) == [CallFx(api, by, FALSE) EXCEPT !.err = msg]
\* syncEvents.emitHealth(ok)
HealthFx(by, ok) ==
    [kind |-> "event", name |-> "health", by |-> by, ok |-> ok, listId |-> "",
     opId |-> 0, err |-> "", item |-> NoItem]
\* syncEvents.emitListsChanged()
ListsChangedFx(by) ==
    [kind |-> "event", name |-> "listsChanged", by |-> by, ok |-> TRUE, listId |-> "",
     opId |-> 0, err |-> "", item |-> NoItem]
\* syncEvents.emitListSynced(listId)
ListSyncedFx(by, listId) ==
    [kind |-> "event", name |-> "listSynced", by |-> by, ok |-> TRUE, listId |-> listId,
     opId |-> 0, err |-> "", item |-> NoItem]
\* itemSyncEvents.emitItemSynced({listId, opId, item})
ItemSyncedFx(by, listId, opId, item) ==
    [kind |-> "event", name |-> "itemSynced", by |-> by, ok |-> TRUE, listId |-> listId,
     opId |-> opId, err |-> "", item |-> item]

-----------------------------------------------------------------------------
(* screens/ListScreen.tsx: the items state of the mounted screen and its
   itemSyncEvents handler, which is subscribed while the screen is mounted *)

\* an ItemView; item_id is NULL for an item the service has not numbered,
\* pendingOpId is NULL for undefined
ItemView(itemId, plain, pendingCreate, pendingOpId) ==
    [item_id |-> itemId, label |-> plain.label, flags |-> plain.flags,
     pendingCreate |-> pendingCreate, pendingUpdate |-> FALSE,
     pendingOpId |-> pendingOpId]

\* prev.map(...) of the itemSynced handler, for one view
ViewSynced(it, opId, item) ==
    IF it.pendingOpId # opId THEN it
    ELSE IF it.pendingCreate
         THEN [it EXCEPT !.item_id = item.item_id, !.pendingCreate = FALSE,
                         !.pendingOpId = NULL]
         ELSE [it EXCEPT !.pendingUpdate = FALSE, !.pendingOpId = NULL]

\* updated.filter((it) => it.item_id != null && it.plaintext).map(...): what
\* the handlers of the screen save as the item cache
PlainForStore(views) ==
    LET kept == SelectSeq(views, LAMBDA it : it.item_id # NULL)
    IN [k \in 1..Len(kept) |->
          [itemId |-> kept[k].item_id, label |-> kept[k].label, flags |-> kept[k].flags]]

\* whether the itemSynced handler of the mounted screen goes past
\* "if (eventListId !== listId) return"
ScreenHandles(scr, listId) == scr.listId # "" /\ scr.listId = listId

\* the items state after the handler ran for the event (listId, opId, item)
ScreenViewsAfter(scr, listId, opId, item) ==
    IF ScreenHandles(scr, listId)
    THEN [k \in 1..Len(scr.views) |-> ViewSynced(scr.views[k], opId, item)]
    ELSE scr.views

-----------------------------------------------------------------------------
(* sync/syncWorker.ts *)

LOCK_TTL_MS == 30000
SYNC_INTERVAL_MS == 15000
BATCH_SIZE == 3

\* the locals of a runSyncOnce invocation that has not started
NoRun == [runId |-> 0, now |-> 0, online |-> "unknown", batch |-> <<>>, i |-> 0,
          processedIds |-> <<>>, res |-> NoRes]

\* the mutant of the lock test that never lets a lock expire
LockHeldForever(raw, now) == raw # NoLock /\ raw.ts # 0

\* acquireLock: raw && parsed?.ts && now - parsed.ts < LOCK_TTL_MS
LockHeld(raw, now) == raw # NoLock /\ raw.ts # 0 /\ now - raw.ts < LOCK_TTL_MS

\* releaseLock(runId): the lock record it leaves in storage
ReleaseLock(raw, runId) ==
    IF raw = NoLock THEN raw
    ELSE IF raw.owner = runId THEN NoLock ELSE raw

\* "if (!online) return;": where runSyncOnce goes after the probe
AfterHealth(online) == IF online THEN "load" ELSE "release"

\* the mutant of the slice that takes the whole queue
BatchAll(q) == q

\* queue.slice(0, 3)
Batch(q) == SubSeq(q, 1, Min(BATCH_SIZE, Len(q)))

\* the mutant of the catch block that knows no duplicate response
ClassifyNoDuplicate(op, msg) ==
    IF IsRateLimit(msg) THEN "break"
    ELSE IF IsItemNotFound(msg) THEN "push"
    ELSE "keep"

\* the mutant of the catch block that goes on after a rate-limit answer
ClassifyNoBreak(op, msg) ==
    IF op.type = "create_list" /\ IsDuplicate(msg) THEN "ack_list"
    ELSE IF IsItemNotFound(msg) THEN "push"
    ELSE "keep"

\* the mutant of the catch block that retries an operation whose item is gone
ClassifyNoNotFound(op, msg) ==
    IF IsRateLimit(msg) THEN "break"
    ELSE IF op.type = "create_list" /\ IsDuplicate(msg) THEN "ack_list"
    ELSE "keep"

\* the catch block of the batch loop: what it does with op after its call
\* rejected with msg ("break": leave the loop; "ack_list": markListSynced,
\* emitListSynced and push; "push": processedIds.push only; "keep": nothing)
Classify(op, msg) ==
    IF IsRateLimit(msg) THEN "break"
    ELSE IF op.type = "create_list" /\ IsDuplicate(msg) THEN "ack_list"
    ELSE IF IsItemNotFound(msg) THEN "push"
    ELSE "keep"

\* the mutant of the try block that tells nobody of a synced update
OnResolvedSilentUpdate(op) ==
    CASE op.type = "create_list" -> "ack_list"
      [] op.type = "create_item" -> "ack_item"
      [] op.type = "update_item" -> "push"
      [] op.type = "delete_item" -> "push"

\* the try block of the batch loop after the call of op resolved ("ack_item":
\* updateLastSeenRev, emitItemSynced and push)
OnResolved(op) ==
    CASE op.type = "create_list" -> "ack_list"
      [] op.type = "create_item" -> "ack_item"
      [] op.type = "update_item" -> "ack_item"
      [] op.type = "delete_item" -> "push"

\* what one iteration of the batch loop does with op once its call settled
Decision(op, res) == IF res.ok THEN OnResolved(op) ELSE Classify(op, res.msg)

\* the mutant of the guard that lets every invocation through
PassesGuardAlways(flag) == TRUE

\* "if (globalState.running) return;": whether an invocation goes on
PassesGuard(flag) == ~flag

\* runSyncOnce up to the first await of acquireLock: the running flag is
\* tested and set, runId is made
RunStartAs(c, id, next) ==
    /\ PassesGuard(running[c])
    /\ running' = [running EXCEPT ![c] = TRUE]
    /\ run' = [run EXCEPT ![c] = [NoRun EXCEPT !.runId = id]]
    /\ nextRunId' = next
    /\ pc' = [pc EXCEPT ![c] = "lock_get"]
    /\ effects' = <<>>
    /\ UNCHANGED <<storeVars, srvVars, busVars, ioVars, clock, nextOpId, tickVars, auxVars>>

RunStart(c) ==
    /\ nextRunId <= MaxRuns
    /\ RunStartAs(c, nextRunId, nextRunId + 1)

\* acquireLock after AsyncStorage.getItem: a held lock ends the invocation
\* ("run skipped, lock held"), otherwise setItem is awaited next
AcquireGet(c) ==
    /\ pc[c] = "lock_get"
    /\ IF LockHeld(lockRec, clock)
       THEN /\ running' = [running EXCEPT ![c] = FALSE]
            /\ run' = [run EXCEPT ![c] = NoRun]
            /\ pc' = [pc EXCEPT ![c] = "idle"]
       ELSE /\ run' = [run EXCEPT ![c].now = clock]
            /\ pc' = [pc EXCEPT ![c] = "lock_set"]
            /\ UNCHANGED running
    /\ effects' = <<>>
    /\ UNCHANGED <<storeVars, srvVars, busVars, ioVars, clock, nextOpId, nextRunId, tickVars, auxVars>>

\* acquireLock: AsyncStorage.setItem(LOCK_KEY, {owner: runId, ts: now})
AcquireSet(c) ==
    /\ pc[c] = "lock_set"
    /\ lockRec' = [owner |-> run[c].runId, ts |-> run[c].now]
    /\ pc' = [pc EXCEPT ![c] = "health"]
    /\ effects' = <<>>
    /\ UNCHANGED <<queue, lists, items, srvVars, busVars, ioVars, clock, nextOpId, nextRunId,
                   running, run, tickVars, auxVars>>

\* const online = await apiHealthz(); if (!online) return;
HealthAs(c, online) ==
    /\ pc[c] = "health"
    /\ run' = [run EXCEPT ![c].online = IF online THEN "yes" ELSE "no"]
    /\ pc' = [pc EXCEPT ![c] = AfterHealth(online)]
    /\ effects' = <<CallFx("healthz", c, online)>>
    /\ UNCHANGED <<storeVars, srvVars, busVars, ioVars, clock, nextOpId, nextRunId, running,
                   tickVars, auxVars>>

Health(c) == \E online \in BOOLEAN : HealthAs(c, online)

\* const queue = await loadQueue(); if (queue.length === 0) return;
\* const batch = queue.slice(0, 3)
LoadQueue(c) ==
    /\ pc[c] = "load"
    /\ IF Len(queue) = 0
       THEN /\ pc' = [pc EXCEPT ![c] = "release"]
            /\ UNCHANGED run
       ELSE /\ run' = [run EXCEPT ![c].batch = Batch(queue), ![c].i = 1,
                                  ![c].processedIds = <<>>]
            /\ pc' = [pc EXCEPT ![c] = "call"]
    /\ effects' = <<>>
    /\ UNCHANGED <<storeVars, srvVars, busVars, ioVars, clock, nextOpId, nextRunId, running,
                   tickVars, auxVars>>

\* the remote call of batch[i] settles with out: "ok" (the service carried
\* the request out and answered), "lost" (it carried the request out and the
\* answer did not arrive) or the message the call rejected with
CallAs(c, out) ==
    /\ pc[c] = "call"
    /\ LET op == run[c].batch[run[c].i]
       IN /\ CASE out = "ok" ->
                    /\ SrvAccepts(op)
                    /\ SrvApply(op, TRUE)
                    /\ run' = [run EXCEPT ![c].res = SrvResponse(op)]
               [] out = "lost" ->
                    /\ SrvAccepts(op)
                    /\ SrvApply(op, FALSE)
                    /\ run' = [run EXCEPT ![c].res = Rejected(MsgOther)]
               [] OTHER ->
                    /\ out \in SrvErrors(op)
                    /\ run' = [run EXCEPT ![c].res = Rejected(out)]
                    /\ UNCHANGED srvVars
          /\ effects' = <<CallFx(op.type, c, out = "ok")>>
    /\ pc' = [pc EXCEPT ![c] = "apply"]
    /\ UNCHANGED <<storeVars, busVars, ioVars, clock, nextOpId, nextRunId, running, tickVars, auxVars>>

CallOutcomes == {"ok", "lost", MsgRate, MsgDup, MsgItemNotFound, MsgListNotFound, MsgOther}

Call(c) == \E out \in CallOutcomes : CallAs(c, out)

\* the rest of the loop iteration of batch[i], after its call settled; the
\* itemSynced handler of a mounted ListScreen runs inside emitItemSynced
Apply(c) ==
    /\ pc[c] = "apply"
    /\ LET op == run[c].batch[run[c].i]
           res == run[c].res
           d == Decision(op, res)
           pushed == IF d \in {"ack_list", "ack_item", "push"}
                     THEN Append(run[c].processedIds, op.id)
                     ELSE run[c].processedIds
           last == d = "break" \/ run[c].i = Len(run[c].batch)
           handled == d = "ack_item" /\ ScreenHandles(screen, op.listId)
           views == ScreenViewsAfter(screen, op.listId, op.id, ItemOf(res))
       IN /\ lists' = CASE d = "ack_list" -> MarkListSynced(lists, op.listId)
                        [] d = "ack_item" -> UpdateLastSeenRev(lists, op.listId, res.rev)
                        [] OTHER -> lists
          /\ screen' = IF handled THEN [screen EXCEPT !.views = views] ELSE screen
          /\ items' = IF handled
                      THEN [items EXCEPT ![op.listId] = PlainForStore(views)]
                      ELSE items
          /\ effects' = CASE d = "ack_list" -> <<ListSyncedFx(c, op.listId)>>
                          [] d = "ack_item" -> <<ItemSyncedFx(c, op.listId, op.id, ItemOf(res))>>
                          [] OTHER -> <<>>
          /\ run' = [run EXCEPT ![c].processedIds = pushed,
                                ![c].i = IF last THEN @ ELSE @ + 1]
          /\ pc' = [pc EXCEPT ![c] = IF last THEN "remove" ELSE "call"]
    /\ UNCHANGED <<queue, lockRec, srvVars, busVars, qio, ticks, timers, clock, nextOpId,
                   nextRunId, running, tickVars, auxVars>>

\* if (processedIds.length > 0) await removeOperations(processedIds)
Remove(c) ==
    /\ pc[c] = "remove"
    /\ queue' = IF Len(run[c].processedIds) > 0
                THEN RemoveOperations(queue, SeqToSet(run[c].processedIds))
                ELSE queue
    /\ pc' = [pc EXCEPT ![c] = "release"]
    /\ effects' = <<>>
    /\ UNCHANGED <<lockRec, lists, items, srvVars, busVars, ioVars, clock, nextOpId, nextRunId,
                   running, run, tickVars, auxVars>>

\* finally { await releaseLock(runId); globalState.running = false; }
Release(c) ==
    /\ pc[c] = "release"
    /\ lockRec' = ReleaseLock(lockRec, run[c].runId)
    /\ running' = [running EXCEPT ![c] = FALSE]
    /\ run' = [run EXCEPT ![c] = NoRun]
    /\ pc' = [pc EXCEPT ![c] = "idle"]
    /\ effects' = <<>>
    /\ UNCHANGED <<queue, lists, items, srvVars, busVars, ioVars, clock, nextOpId, nextRunId,
                   tickVars, auxVars>>

\* a timer period elapses
AdvanceClock ==
    /\ clock < SYNC_INTERVAL_MS * (1 + MaxClockSteps)
    /\ clock' = clock + SYNC_INTERVAL_MS
    /\ effects' = <<>>
    /\ UNCHANGED <<storeVars, srvVars, nextOpId, syncVars, tickVars, auxVars, busVars,
                   ioVars>>

-----------------------------------------------------------------------------
(* sync/healthAndSyncWorker.ts *)

PLACEHOLDER_NAME == "Lista importata"

\* the locals of a runHealthAndSyncOnce invocation that has not started
NoTick == [stored |-> <<>>, updated |-> <<>>, changed |-> FALSE, i |-> 0]

\* isNotFoundError(e): the lower-cased message includes "404" or "not found"
IsNotFoundError(msg) == msg \in {MsgItemNotFound, MsgListNotFound}

\* GET /lists/{id}/items?since_rev=N: the rows of the list newer than since
\* (all of them when since is null), and the list's latest revision
SrvRows(listId, since) ==
    SelectSeq([i \in 1..Len(srvItems) |->
                  [item_id |-> i, listId |-> srvItems[i].listId,
                   ciphertext_b64 |-> srvItems[i].ciphertextB64,
                   nonce_b64 |-> srvItems[i].nonceB64,
                   rev |-> srvItems[i].rev, deleted |-> srvItems[i].deleted]],
              LAMBDA r : r.listId = listId /\ r.rev > since)

SrvLatestRev(listId) ==
    LET revs == {srvItems[i].rev : i \in {j \in 1..Len(srvItems) : srvItems[j].listId = listId}}
    IN IF revs = {} THEN NULL ELSE CHOOSE r \in revs : \A q \in revs : q <= r

\* the answers apiGetList / apiFetchItems can get for a list
FetchOutcomes(listId) ==
    (IF listId \in srvLists THEN {"ok"} ELSE {"notfound", "gone"}) \cup {"other"}

\* the message of the ApiError, or of fetch's rejection, behind an answer
FetchError(out) ==
    CASE out = "notfound" -> MsgListNotFound
      [] out = "gone" -> MsgListGone
      [] OTHER -> MsgOther

\* apiGetList / apiFetchItems of the tick settled with out
FetchFx(api, out) ==
    IF out = "ok" THEN CallFx(api, "tick", TRUE)
    ELSE CallFailedFx(api, "tick", FetchError(out))

\* the RemoteItemSnapshot made of one fetched entry
Snapshot(it) ==
    IF it.deleted
    THEN [itemId |-> it.item_id, label |-> "", flags |-> NoFlags, deleted |-> TRUE]
    ELSE [itemId |-> it.item_id, label |-> DecryptJson(it.ciphertext_b64).label,
          flags |-> DecryptJson(it.ciphertext_b64).flags, deleted |-> FALSE]

\* the mutant of the loop over res.items that gives the whole batch up at the
\* first entry that does not decrypt
SnapshotsAllOrNothing(rows) ==
    IF \E k \in 1..Len(rows) : ~rows[k].deleted /\ ~CanDecrypt(rows[k].ciphertext_b64)
    THEN <<>>
    ELSE [i \in 1..Len(rows) |-> Snapshot(rows[i])]

\* "for (const it of res.items)": an entry that does not decrypt is skipped
Snapshots(rows) ==
    LET kept == SelectSeq(rows, LAMBDA it : it.deleted \/ CanDecrypt(it.ciphertext_b64))
    IN [i \in 1..Len(kept) |-> Snapshot(kept[i])]

\* step 1 of the loop body, the refresh of a placeholder name; out is the
\* answer apiGetList got ("none" when it is not called)
TickMeta(l, out) ==
    CASE out = "ok" ->
            [newL |-> [l EXCEPT !.name = MetaPlain(l.listId).name,
                                !.removedFromServer = FALSE],
             changed |-> MetaPlain(l.listId).name # l.name, skip |-> FALSE]
      [] IsNotFoundError(FetchError(out)) ->
            [newL |-> [l EXCEPT !.removedFromServer = TRUE],
             changed |-> TRUE, skip |-> TRUE]
      [] OTHER -> [newL |-> l, changed |-> FALSE, skip |-> FALSE]

\* the mutant of step 2 that takes every resolved fetch for a change
TickFetchAlwaysChanged(l, out, latest) ==
    CASE out = "ok" ->
            [newL |-> [l EXCEPT !.lastRemoteRev = IF latest # NULL THEN latest ELSE @,
                                !.removedFromServer = FALSE],
             changed |-> TRUE]
      [] IsNotFoundError(FetchError(out)) ->
            [newL |-> [l EXCEPT !.removedFromServer = TRUE], changed |-> TRUE]
      [] OTHER -> [newL |-> l, changed |-> FALSE]

\* step 2 of the loop body after the item fetch settled with out and, when it
\* resolved, reported latest as latest_rev
TickFetch(l, out, latest) ==
    CASE out = "ok" ->
            IF latest # NULL /\ latest # l.lastRemoteRev
            THEN [newL |-> [l EXCEPT !.lastRemoteRev = latest,
                                     !.removedFromServer = FALSE],
                  changed |-> TRUE]
            ELSE [newL |-> l, changed |-> FALSE]
      [] IsNotFoundError(FetchError(out)) ->
            [newL |-> [l EXCEPT !.removedFromServer = TRUE], changed |-> TRUE]
      [] OTHER -> [newL |-> l, changed |-> FALSE]

\* the mutant of the tick's gate that syncs the lists although the probe failed
TickAfterHealthIgnored(ok) == "load"

\* "if (!ok) return [];": where the tick goes after emitHealth(ok)
TickAfterHealth(ok) == IF ok THEN "load" ELSE "idle"

\* the value the tick hands to syncEvents.emitHealth
TickHealthValue(ok) == ok

\* const ok = await healthzWithTimeout(); syncEvents.emitHealth(ok);
\* if (!ok) return [];   (ok is false also when the probe timed out)
TickHealthAs(ok) ==
    /\ tpc = "idle"
    /\ tpc' = TickAfterHealth(ok)
    /\ tick' = NoTick
    /\ effects' = <<CallFx("healthz", "tick", ok), HealthFx("tick", TickHealthValue(ok))>>
    /\ UNCHANGED <<storeVars, srvVars, busVars, ioVars, clock, nextOpId, syncVars, auxVars>>

TickHealth == \E ok \in BOOLEAN : TickHealthAs(ok)

\* const stored = await loadStoredLists(); if (!stored.length) return [];
TickLoad ==
    /\ tpc = "load"
    /\ LET stored == LoadStoredLists(lists)
       IN IF Len(stored) = 0
          THEN tpc' = "idle" /\ tick' = NoTick
          ELSE /\ tick' = [stored |-> stored, updated |-> <<>>, changed |-> FALSE, i |-> 1]
               /\ tpc' = "list"
    /\ effects' = <<>>
    /\ UNCHANGED <<storeVars, srvVars, busVars, ioVars, clock, nextOpId, syncVars, auxVars>>

\* the mutant of the loop's guards that only leaves removed lists alone
TickSkipsRemovedOnly(l) == l.removedFromServer

\* "if (newL.pendingCreate) { updated.push(newL); continue; }" and
\* "if (!newL.removedFromServer)": the lists the loop hands on untouched
TickSkips(l) == l.pendingCreate \/ l.removedFromServer

\* one iteration of "for (const l of stored)"
TickList ==
    /\ tpc = "list"
    /\ LET l == tick.stored[tick.i]
           idle == TickSkips(l)
           callsMeta == ~idle /\ l.name = PLACEHOLDER_NAME
           last == tick.i = Len(tick.stored)
       IN \E metaOut \in (IF callsMeta THEN FetchOutcomes(l.listId) ELSE {"none"}),
             fetchOut \in FetchOutcomes(l.listId) :
            LET m == IF idle THEN [newL |-> l, changed |-> FALSE, skip |-> TRUE]
                     ELSE TickMeta(l, metaOut)
                since == m.newL.lastRemoteRev
                f == IF m.skip THEN [newL |-> m.newL, changed |-> FALSE]
                     ELSE TickFetch(m.newL, fetchOut, SrvLatestRev(l.listId))
                snaps == IF ~m.skip /\ fetchOut = "ok"
                         THEN Snapshots(SrvRows(l.listId, since)) ELSE <<>>
            IN /\ m.skip => fetchOut = "other"
               /\ items' = [items EXCEPT ![l.listId] =
                               MergeRemoteItemsIntoLocal(@, snaps)]
               /\ tick' = [tick EXCEPT !.updated = Append(@, f.newL),
                                       !.changed = @ \/ m.changed \/ f.changed,
                                       !.i = IF last THEN @ ELSE @ + 1]
               /\ effects' =
                     (IF callsMeta THEN <<FetchFx("getList", metaOut)>> ELSE <<>>)
                     \o (IF ~m.skip THEN <<FetchFx("fetchItems", fetchOut)>> ELSE <<>>)
               /\ tpc' = IF last THEN "save" ELSE "list"
    /\ UNCHANGED <<queue, lockRec, lists, srvVars, busVars, ioVars, clock, nextOpId, syncVars, auxVars>>

\* the mutant of the end of the tick that saves and emits whether or not
\* anything changed
TickSaveUnconditional ==
    /\ tpc = "save"
    /\ lists' = tick.updated /\ effects' = <<ListsChangedFx("tick")>>
    /\ tpc' = "idle"
    /\ tick' = NoTick
    /\ UNCHANGED <<queue, lockRec, items, srvVars, busVars, ioVars, clock, nextOpId, syncVars, auxVars>>

\* if (changed) { await saveStoredLists(updated); syncEvents.emitListsChanged(); }
TickSave ==
    /\ tpc = "save"
    /\ IF tick.changed
       THEN lists' = tick.updated /\ effects' = <<ListsChangedFx("tick")>>
       ELSE UNCHANGED lists /\ effects' = <<>>
    /\ tpc' = "idle"
    /\ tick' = NoTick
    /\ UNCHANGED <<queue, lockRec, items, srvVars, busVars, ioVars, clock, nextOpId, syncVars, auxVars>>

-----------------------------------------------------------------------------
(* The UI mutations that reach the queue and the registry *)

\* CreateListScreen.handleCreate when apiCreateList succeeds:
\* upsertStoredList({..., pendingCreate: false}), emitListsChanged
UiCreateListOnline(l) ==
    /\ FindList(lists, l) = 0
    /\ l \notin srvLists
    /\ srvLists' = srvLists \cup {l}
    /\ lists' = UpsertStoredList(lists,
                    [NewPendingList(l, MetaPlain(l).name) EXCEPT !.pendingCreate = FALSE])
    /\ effects' = <<CallFx("apiCreateList", "ui", TRUE), ListsChangedFx("ui")>>
    /\ UNCHANGED <<queue, lockRec, items, srvItems, srvRev, busVars, ioVars, clock, nextOpId,
                   syncVars, tickVars, auxVars>>

\* CreateListScreen.handleCreate when the online creation failed:
\* upsertStoredList({..., pendingCreate: true}), emitListsChanged,
\* enqueueCreateList
UiCreateListOffline(l) ==
    /\ nextOpId <= MaxOps
    /\ FindList(lists, l) = 0
    /\ lists' = UpsertStoredList(lists, NewPendingList(l, MetaPlain(l).name))
    /\ queue' = Enqueue(queue, MkOp(nextOpId, "create_list", l, NULL,
                                    EncryptJson(MetaPlain(l)).ciphertextB64,
                                    EncryptJson(MetaPlain(l)).nonceB64))
    /\ nextOpId' = nextOpId + 1
    /\ effects' = <<ListsChangedFx("ui")>>
    /\ UNCHANGED <<lockRec, items, srvVars, busVars, ioVars, clock, syncVars, tickVars, auxVars>>

\* ListScreen.handleAddItem when apiCreateItem failed: enqueueCreateItem
UiAddItemOffline(l) ==
    /\ nextOpId <= MaxOps
    /\ FindList(lists, l) # 0
    /\ \E plain \in {p \in ItemPlains : p.flags = NoFlags} :
          queue' = Enqueue(queue, MkOp(nextOpId, "create_item", l, NULL,
                                       EncryptJson(plain).ciphertextB64,
                                       EncryptJson(plain).nonceB64))
    /\ nextOpId' = nextOpId + 1
    /\ effects' = <<>>
    /\ UNCHANGED <<lockRec, lists, items, srvVars, busVars, ioVars, clock, syncVars, tickVars, auxVars>>

\* ListScreen.handleToggleFlag, case 2 when apiUpdateItem failed offline:
\* enqueueUpdateItem for an item the service has given an id
UiUpdateItemOffline(l, itemId) ==
    /\ nextOpId <= MaxOps
    /\ FindList(lists, l) # 0
    /\ srvItems[itemId].listId = l
    /\ \E plain \in ItemPlains :
          queue' = Enqueue(queue, MkOp(nextOpId, "update_item", l, itemId,
                                       EncryptJson(plain).ciphertextB64,
                                       EncryptJson(plain).nonceB64))
    /\ nextOpId' = nextOpId + 1
    /\ effects' = <<>>
    /\ UNCHANGED <<lockRec, lists, items, srvVars, busVars, ioVars, clock, syncVars, tickVars, auxVars>>

\* ListScreen.handleDelete when apiDeleteItem failed: enqueueDeleteItem
UiDeleteItemOffline(l, itemId) ==
    /\ nextOpId <= MaxOps
    /\ FindList(lists, l) # 0
    /\ srvItems[itemId].listId = l
    /\ queue' = Enqueue(queue, MkOp(nextOpId, "delete_item", l, itemId, NoCipher, NoNonce))
    /\ nextOpId' = nextOpId + 1
    /\ effects' = <<>>
    /\ UNCHANGED <<lockRec, lists, items, srvVars, busVars, ioVars, clock, syncVars, tickVars, auxVars>>

\* MyListsScreen.handleOpenList: the user views the list
UiOpenList(l) ==
    /\ FindList(lists, l) # 0
    /\ lists' = OpenList(lists, l)
    /\ effects' = <<>>
    /\ UNCHANGED <<queue, lockRec, items, srvVars, busVars, ioVars, clock, nextOpId, syncVars,
                   tickVars, auxVars>>

-----------------------------------------------------------------------------
(* Spec: the workers and the UI, interleaved *)

-----------------------------------------------------------------------------
(* events/syncEvents.ts and events/itemSyncEvents.ts. A handler is the
   function object handed to a subscribe call; every subscriber of the
   application passes a closure it has just made, so each subscribe call
   brings a handler of its own, named by the number of the call. *)

\* listSynced, listsChanged and health are the three arrays of SyncEventBus,
\* itemSynced is the array of ItemSyncEventBus
Channels == {"listSynced", "listsChanged", "health", "itemSynced"}

\* the call h(payload) of a handler of channel ch: ok is the argument of a
\* health handler, listId and opId the fields of a listSynced or itemSynced
\* payload
Invocation(h, ch, ok, listId, opId) ==
    [handler |-> h, channel |-> ch, ok |-> ok, listId |-> listId, opId |-> opId]

\* the mutant of subscribeHealth that does not replay
ReplayNever(ch, last, h) == <<>>

\* "if (this.lastHealth !== null) handler(this.lastHealth)" of subscribeHealth;
\* the other subscribe functions call nothing
Replay(ch, last, h) ==
    IF ch = "health" /\ last # <<>>
    THEN <<Invocation(h, ch, last[1], "", 0)>>
    ELSE <<>>

\* the mutant of the unsubscribe function that empties the array
FilterOutAll(ls, h) == <<>>

\* this.listeners.filter((x) => x !== handler)
FilterOut(ls, h) == SelectSeq(ls, LAMBDA x : x # h)

\* the mutant of an emit that calls the handlers last subscribed first
ForEachReversed(ls, fx) ==
    [i \in 1..Len(ls) |->
        Invocation(ls[Len(ls) + 1 - i], fx.name, fx.ok, fx.listId, fx.opId)]

\* this.listeners.forEach((h) => h(payload)), fx being the event emitted
ForEach(ls, fx) ==
    [i \in 1..Len(ls) |-> Invocation(ls[i], fx.name, fx.ok, fx.listId, fx.opId)]

\* the buses as the module constructs them
BusAtRest ==
    /\ listeners = [ch \in Channels |-> <<>>]
    /\ lastHealth = <<>>
    /\ closures = <<>>
    /\ invoked = <<>>

\* the callers of storage/syncQueue.ts: the screens and the Sync Worker
QCallers == {"ui", "worker"}

\* no syncQueue call in flight
NoCall == [fn |-> "none", loaded |-> <<>>, op |-> <<>>, ids |-> {}]

\* no ListScreen is mounted
NoScreen == [listId |-> "", views |-> <<>>]

\* healthAndSyncWorker.ts as loaded: foregroundIntervalId is null, no timer
\* exists, no startForegroundSyncWorker call is awaiting
NoTimers == [id |-> NULL, live |-> {}, starting |-> 0, made |-> 0, app |-> "active"]

\* nothing between a load and its save, no tick in flight, no screen, no timer
IoAtRest ==
    /\ qio = [c \in QCallers |-> NoCall]
    /\ ticks = <<>>
    /\ screen = NoScreen
    /\ timers = NoTimers

\* mergeIn and qHist when the specification does not use them
NoMergeIn == [before |-> <<>>, remoteItems |-> <<>>, done |-> FALSE]
NoQHist == [created |-> <<>>, synced |-> FALSE]

Init ==
    /\ queue = <<>>
    /\ lockRec = NoLock
    /\ lists = <<>>
    /\ items = [l \in ListIds |-> <<>>]
    /\ srvLists = {}
    /\ srvItems = <<>>
    /\ srvRev = 0
    /\ clock = SYNC_INTERVAL_MS
    /\ nextOpId = 1
    /\ nextRunId = 1
    /\ running = [c \in Ctx |-> FALSE]
    /\ pc = [c \in Ctx |-> "idle"]
    /\ run = [c \in Ctx |-> NoRun]
    /\ tpc = "idle"
    /\ tick = NoTick
    /\ effects = <<>>
    /\ mergeIn = NoMergeIn
    /\ qHist = NoQHist
    /\ BusAtRest
    /\ IoAtRest

SyncStep(c) ==
    \/ RunStart(c)
    \/ AcquireGet(c)
    \/ AcquireSet(c)
    \/ Health(c)
    \/ LoadQueue(c)
    \/ Call(c)
    \/ Apply(c)
    \/ Remove(c)
    \/ Release(c)

TickStep == TickHealth \/ TickLoad \/ TickList \/ TickSave

UiStep ==
    \/ \E l \in ListIds : UiCreateListOnline(l) \/ UiCreateListOffline(l)
    \/ \E l \in ListIds : UiAddItemOffline(l) \/ UiOpenList(l)
    \/ \E l \in ListIds, itemId \in 1..Len(srvItems) :
          UiUpdateItemOffline(l, itemId) \/ UiDeleteItemOffline(l, itemId)

\* the foreground context: its Sync Worker timer, its reconciliation timer
\* and the UI
Next ==
    \/ SyncStep("fg")
    \/ TickStep
    \/ UiStep

Spec == Init /\ [][Next]_vars

-----------------------------------------------------------------------------
(* RaceSpec: the Sync Worker invoked from the foreground timer and from an
   out-of-process wake, which share the persisted state only *)

\* the state Spec reaches when the user has created list "a" offline and
\* added an item to it, before any worker ran
RaceInit ==
    /\ lists = <<NewPendingList("a", MetaPlain("a").name)>>
    /\ queue = <<MkOp(1, "create_list", "a", NULL,
                      EncryptJson(MetaPlain("a")).ciphertextB64,
                      EncryptJson(MetaPlain("a")).nonceB64),
                 MkOp(2, "create_item", "a", NULL,
                      EncryptJson([label |-> "A", flags |-> NoFlags]).ciphertextB64,
                      EncryptJson([label |-> "A", flags |-> NoFlags]).nonceB64)>>
    /\ nextOpId = 3
    /\ lockRec = NoLock
    /\ items = [l \in ListIds |-> <<>>]
    /\ srvLists = {}
    /\ srvItems = <<>>
    /\ srvRev = 0
    /\ clock = SYNC_INTERVAL_MS
    /\ nextRunId = 1
    /\ running = [c \in Ctx |-> FALSE]
    /\ pc = [c \in Ctx |-> "idle"]
    /\ run = [c \in Ctx |-> NoRun]
    /\ tpc = "idle"
    /\ tick = NoTick
    /\ effects = <<>>
    /\ mergeIn = NoMergeIn
    /\ qHist = NoQHist
    /\ BusAtRest
    /\ IoAtRest

RaceNext ==
    \/ \E c \in Ctx : SyncStep(c)
    \/ AdvanceClock

RaceSpec == RaceInit /\ [][RaceNext]_vars

-----------------------------------------------------------------------------
(* MergeSpec: mergeRemoteItemsIntoLocal applied once to a stored item list
   and the snapshots of one fetch *)

MaxLocalItems == 3     \* items in the stored list
MaxSnapshots == 2      \* entries one fetch returns
MaxItemId == 2         \* item ids in play

SeqsUpTo(S, n) == UNION {[1..k -> S] : k \in 0..n}

\* no two entries carry the same non-null id
UniqueIds(s) ==
    \A i, j \in 1..Len(s) : (i # j /\ s[i].itemId # NULL) => s[i].itemId # s[j].itemId

\* StoredItemPlain values: local-only (itemId null) and id-bearing
LocalItems ==
    [itemId : {NULL} \cup (1..MaxItemId), label : {"A"}, flags : {NoFlags, Checked}]

\* RemoteItemSnapshot values as the callers build them: a live entry carries
\* the decrypted label and flags, a tombstone carries "" and no flags
RemoteSnapshots ==
    [itemId : 1..MaxItemId, label : {"X"}, flags : {NoFlags, Checked}, deleted : {FALSE}]
    \cup [itemId : 1..MaxItemId, label : {""}, flags : {NoFlags}, deleted : {TRUE}]

\* item_id is the primary key of list_items: one fetch reports an id once
MergeLocals == {s \in SeqsUpTo(LocalItems, MaxLocalItems) : UniqueIds(s)}
MergeRemotes == {s \in SeqsUpTo(RemoteSnapshots, MaxSnapshots) : UniqueIds(s)}

\* the workers at rest, nothing queued, nothing on the service
Quiescent ==
    /\ lockRec = NoLock
    /\ clock = SYNC_INTERVAL_MS
    /\ nextRunId = 1
    /\ running = [c \in Ctx |-> FALSE]
    /\ pc = [c \in Ctx |-> "idle"]
    /\ run = [c \in Ctx |-> NoRun]
    /\ tpc = "idle"
    /\ tick = NoTick
    /\ effects = <<>>

MergeInit ==
    /\ mergeIn \in [before : MergeLocals, remoteItems : MergeRemotes, done : {FALSE}]
    /\ items = [l \in ListIds |-> mergeIn.before]
    /\ queue = <<>>
    /\ lists = <<>>
    /\ srvLists = {}
    /\ srvItems = <<>>
    /\ srvRev = 0
    /\ nextOpId = 1
    /\ qHist = NoQHist
    /\ BusAtRest
    /\ IoAtRest
    /\ Quiescent

\* await mergeRemoteItemsIntoLocal(listId, snapshots)
MergeStep(l) ==
    /\ ~mergeIn.done
    /\ items' = [items EXCEPT ![l] = MergeRemoteItemsIntoLocal(@, mergeIn.remoteItems)]
    /\ mergeIn' = [mergeIn EXCEPT !.done = TRUE]
    /\ UNCHANGED <<queue, lockRec, lists, srvVars, busVars, ioVars, clock, nextOpId, syncVars,
                   tickVars, effects, qHist>>

MergeNext == \E l \in ListIds : MergeStep(l)

MergeSpec == MergeInit /\ [][MergeNext]_vars

\* the items of s that carry a server id, as a set
IdBearing(s) == {s[i] : i \in {j \in 1..Len(s) : s[j].itemId # NULL}}

\* C6: after mergeRemoteItemsIntoLocal the local items whose itemId is null
\* are the ones stored before it, with the same label and flags and in the
\* same relative order, whatever the snapshots (tombstones included).
C6_LocalOnlyUntouched ==
    mergeIn.done =>
        \A l \in ListIds :
            SelectSeq(items[l], IsLocalOnly) = SelectSeq(mergeIn.before, IsLocalOnly)

\* a merge of snapshots holding a tombstone into a list with two local-only
\* items around an id-bearing one
C6_Witness ==
    /\ mergeIn.done
    /\ Len(mergeIn.before) = 3
    /\ IsLocalOnly(mergeIn.before[1]) /\ ~IsLocalOnly(mergeIn.before[2])
    /\ IsLocalOnly(mergeIn.before[3])
    /\ mergeIn.before[1] # mergeIn.before[3]
    /\ \E i \in 1..Len(mergeIn.remoteItems) :
          /\ mergeIn.remoteItems[i].deleted
          /\ mergeIn.remoteItems[i].itemId = mergeIn.before[2].itemId
    /\ \A l \in ListIds : items[l] = <<mergeIn.before[1], mergeIn.before[3]>>

\* C7: after mergeRemoteItemsIntoLocal the stored items with a non-null id
\* are exactly the previous id-bearing items whose id no snapshot names plus
\* the non-deleted snapshots with the server's label and flags, each id once;
\* every id reported deleted is absent.
C7_IdBearingMerged ==
    mergeIn.done =>
        \A l \in ListIds :
            LET r == mergeIn.remoteItems
                named == {r[i].itemId : i \in 1..Len(r)}
                live == {[itemId |-> r[i].itemId, label |-> r[i].label,
                          flags |-> r[i].flags] : i \in {j \in 1..Len(r) : ~r[j].deleted}}
            IN /\ IdBearing(items[l])
                    = {it \in IdBearing(mergeIn.before) : it.itemId \notin named} \cup live
               /\ UniqueIds(items[l])
               /\ \A i \in 1..Len(r) :
                     r[i].deleted => \A k \in 1..Len(items[l]) : items[l][k].itemId # r[i].itemId

\* local {null, 1, 2}, item 2 reported deleted and item 1 relabelled "X":
\* the merge stored {null unchanged, 1 with label "X"}
C7_Witness ==
    /\ mergeIn.done
    /\ mergeIn.before = <<[itemId |-> NULL, label |-> "A", flags |-> NoFlags],
                          [itemId |-> 1, label |-> "A", flags |-> NoFlags],
                          [itemId |-> 2, label |-> "A", flags |-> NoFlags]>>
    /\ mergeIn.remoteItems = <<[itemId |-> 2, label |-> "", flags |-> NoFlags, deleted |-> TRUE],
                               [itemId |-> 1, label |-> "X", flags |-> Checked, deleted |-> FALSE]>>
    /\ \A l \in ListIds :
          items[l] = <<[itemId |-> NULL, label |-> "A", flags |-> NoFlags],
                       [itemId |-> 1, label |-> "X", flags |-> Checked]>>

-----------------------------------------------------------------------------
(* QueueSpec: the callers of storage/syncQueue.ts in any order. qHist keeps,
   for every create_item operation, what its callers were told and asked:
   the id and position enqueueCreateItem gave it and the payload of the last
   rewrite; qHist.synced says whether a Sync Worker run has removed
   operations. *)

MaxQueueOps == 3       \* operations enqueued
MaxRewrites == 2       \* rewrites of one create_item operation

QueueInit ==
    /\ queue = <<>>
    /\ nextOpId = 1
    /\ qHist = NoQHist
    /\ BusAtRest
    /\ IoAtRest
    /\ lists = <<[NewPendingList("a", MetaPlain("a").name) EXCEPT !.pendingCreate = FALSE]>>
    /\ items = [l \in ListIds |-> <<>>]
    /\ srvLists = {"a"}
    /\ srvItems = <<>>
    /\ srvRev = 0
    /\ mergeIn = NoMergeIn
    /\ Quiescent

\* ListScreen.handleAddItem when apiCreateItem failed: enqueueCreateItem; the
\* item view keeps the returned op.id as its pendingOpId
QueueEnqueueCreateItem(l) ==
    /\ nextOpId <= MaxQueueOps
    /\ \E plain \in {p \in ItemPlains : p.flags = NoFlags} :
          queue' = Enqueue(queue, MkOp(nextOpId, "create_item", l, NULL,
                                       EncryptJson(plain).ciphertextB64,
                                       EncryptJson(plain).nonceB64))
    /\ qHist' = [qHist EXCEPT !.created = Append(@,
                    [opId |-> nextOpId,
                     pos |-> FindCreateItem(queue', nextOpId),
                     ciphertextB64 |-> queue'[FindCreateItem(queue', nextOpId)].ciphertextB64,
                     nonceB64 |-> queue'[FindCreateItem(queue', nextOpId)].nonceB64,
                     rewrites |-> 0])]
    /\ nextOpId' = nextOpId + 1
    /\ UNCHANGED <<lockRec, lists, items, srvVars, busVars, ioVars, clock, syncVars, tickVars,
                   effects, mergeIn>>

\* enqueueUpdateItem / enqueueDeleteItem for an item the service knows
QueueEnqueueOther(l, type) ==
    /\ nextOpId <= MaxQueueOps
    /\ queue' = Enqueue(queue,
                    IF type = "update_item"
                    THEN MkOp(nextOpId, type, l, 1, EncryptJson([label |-> "A", flags |-> Checked]).ciphertextB64,
                              EncryptJson([label |-> "A", flags |-> Checked]).nonceB64)
                    ELSE MkOp(nextOpId, type, l, 1, NoCipher, NoNonce))
    /\ nextOpId' = nextOpId + 1
    /\ UNCHANGED <<lockRec, lists, items, srvVars, busVars, ioVars, clock, syncVars, tickVars,
                   effects, auxVars>>

\* ListScreen.handleToggleFlag, case 1 (the item is pendingCreate and has a
\* pendingOpId): updateCreateItemOpCipher with the re-encrypted item
QueueRewrite(k) ==
    /\ qHist.created[k].rewrites < MaxRewrites
    /\ \E plain \in ItemPlains :
          /\ queue' = UpdateCreateItemOpCipher(queue, qHist.created[k].opId,
                                               EncryptJson(plain).ciphertextB64,
                                               EncryptJson(plain).nonceB64)
          /\ qHist' = [qHist EXCEPT !.created[k] =
                          [@ EXCEPT !.ciphertextB64 = EncryptJson(plain).ciphertextB64,
                                    !.nonceB64 = EncryptJson(plain).nonceB64,
                                    !.rewrites = @ + 1]]
    /\ UNCHANGED <<lockRec, lists, items, srvVars, busVars, ioVars, clock, nextOpId, syncVars,
                   tickVars, effects, mergeIn>>

\* a Sync Worker run ends: removeOperations(processedIds), processedIds
\* being operations of its batch
QueueSyncRun(ids) ==
    /\ ids # {}
    /\ ids \subseteq {op.id : op \in SeqToSet(Batch(queue))}
    /\ queue' = RemoveOperations(queue, ids)
    /\ qHist' = [qHist EXCEPT !.synced = TRUE]
    /\ UNCHANGED <<lockRec, lists, items, srvVars, busVars, ioVars, clock, nextOpId, syncVars,
                   tickVars, effects, mergeIn>>

QueueNext ==
    \/ \E l \in ListIds : QueueEnqueueCreateItem(l)
    \/ \E l \in ListIds, type \in {"update_item", "delete_item"} : QueueEnqueueOther(l, type)
    \/ \E k \in 1..Len(qHist.created) : QueueRewrite(k)
    \/ \E ids \in SUBSET (1..MaxQueueOps) : QueueSyncRun(ids)

QueueSpec == QueueInit /\ [][QueueNext]_vars

\* the create_item operations of q with the given id
CreateItemOps(q, opId) ==
    {i \in 1..Len(q) : q[i].type = "create_item" /\ q[i].id = opId}

\* C8: as long as no sync run has removed operations, every create_item
\* operation that was enqueued and then rewritten any number of times is in
\* the queue exactly once, with the id and at the position enqueueCreateItem
\* gave it, carrying the ciphertext and nonce of the last rewrite, and the
\* queue holds one operation per enqueue: no rewrite appended one.
C8_RewriteInPlace ==
    ~qHist.synced =>
        /\ Len(queue) = nextOpId - 1
        /\ \A k \in 1..Len(qHist.created) :
              LET h == qHist.created[k]
              IN /\ CreateItemOps(queue, h.opId) = {h.pos}
                 /\ queue[h.pos].ciphertextB64 = h.ciphertextB64
                 /\ queue[h.pos].nonceB64 = h.nonceB64

\* a create_item operation rewritten twice, last with the toggled flags,
\* with a later operation behind it, before any sync run
C8_Witness ==
    /\ ~qHist.synced
    /\ Len(queue) = 3
    /\ \E k \in 1..Len(qHist.created) :
          /\ qHist.created[k].rewrites = 2
          /\ qHist.created[k].pos = 2
          /\ queue[2].id = qHist.created[k].opId
          /\ queue[2].ciphertextB64 = EncryptJson([label |-> "A", flags |-> Checked]).ciphertextB64

-----------------------------------------------------------------------------
(* LiveSpec: the Sync Worker of the foreground context on its interval timer,
   with a service that stays reachable and answers every request: the probe
   resolves true, a request the service accepts is carried out and
   acknowledged, a create_item for a list the service does not hold is
   refused with 404. Lists "gone" and "kept" were both created online; the
   service has since lost "gone". *)

MaxLiveOps == 4        \* operations in the queue when the timer starts

LiveListIds == {"gone", "kept"}

LiveOp(id, listId) ==
    MkOp(id, "create_item", listId, NULL,
         EncryptJson([label |-> "A", flags |-> NoFlags]).ciphertextB64,
         EncryptJson([label |-> "A", flags |-> NoFlags]).nonceB64)

\* the queues of create_item operations the user left while offline, none
\* holding more operations for "kept" than the service has rows and
\* revisions for
LiveQueues ==
    {[i \in 1..Len(ls) |-> LiveOp(i, ls[i])] :
        ls \in {s \in SeqsUpTo(LiveListIds, MaxLiveOps) :
                  /\ Len(s) > 0
                  /\ Cardinality({i \in 1..Len(s) : s[i] = "kept"})
                        <= Min(MaxSrvItems, MaxRev)}}

LiveInit ==
    /\ queue \in LiveQueues
    /\ nextOpId = Len(queue) + 1
    /\ lists = <<[NewPendingList("gone", "A") EXCEPT !.pendingCreate = FALSE],
                 [NewPendingList("kept", "A") EXCEPT !.pendingCreate = FALSE]>>
    /\ items = [l \in ListIds |-> <<>>]
    /\ srvLists = {"kept"}
    /\ srvItems = <<>>
    /\ srvRev = 0
    /\ mergeIn = NoMergeIn
    /\ qHist = NoQHist
    /\ BusAtRest
    /\ IoAtRest
    /\ Quiescent

\* the timer fires: the runId only tells the lock's owner, and this context
\* is the only one
LiveRunStart == RunStartAs("fg", 1, 1)

\* the answer of the reachable service to the request of batch[i]
LiveCall ==
    /\ pc["fg"] = "call"
    /\ CallAs("fg", IF SrvAccepts(run["fg"].batch[run["fg"].i])
                    THEN "ok" ELSE MsgListNotFound)

LiveNext ==
    \/ LiveRunStart
    \/ AcquireGet("fg")
    \/ AcquireSet("fg")
    \/ HealthAs("fg", TRUE)
    \/ LoadQueue("fg")
    \/ LiveCall
    \/ Apply("fg")
    \/ Remove("fg")
    \/ Release("fg")

\* setInterval keeps firing and every awaited promise settles
LiveSpec == LiveInit /\ [][LiveNext]_vars /\ WF_vars(LiveNext)

InQueue(id) == \E i \in 1..Len(queue) : queue[i].id = id

\* the remote call of operation id has just settled
Attempted(id) == pc["fg"] = "apply" /\ run["fg"].batch[run["fg"].i].id = id

\* operation id is queued and the service would carry its request out
Acceptable(id) ==
    \E i \in 1..Len(queue) : queue[i].id = id /\ SrvAccepts(queue[i])

\* C4: under a fair timer and a reachable service every operation that is in
\* the queue when the timer starts is eventually attempted against the
\* service, and one the service would accept is eventually removed from the
\* queue, even when the operations ahead of it keep failing with a
\* non-terminal error.
C4_EveryOpEventuallyServed ==
    \A id \in 1..MaxLiveOps :
        /\ InQueue(id) => <>Attempted(id)
        /\ Acceptable(id) => <>(~InQueue(id))

\* a run that found three operations for "gone" ahead of one for "kept" and
\* has had all three refused
C4_Witness ==
    /\ pc["fg"] = "remove"
    /\ Len(queue) = 4
    /\ \A i \in 1..3 : queue[i].listId = "gone"
    /\ Acceptable(4)
    /\ run["fg"].processedIds = <<>>

-----------------------------------------------------------------------------
(* Properties of the Sync Worker and the reconciliation tick *)

\* C1: whatever the runs of the Sync Worker, overlapping ones included, no
\* queued create_item operation has more than one apiCreateItem call that
\* succeeded.
C1_AtMostOneCreation ==
    \A i, j \in 1..Len(srvItems) :
        (srvItems[i].acked /\ srvItems[j].acked /\ srvItems[i].byOp = srvItems[j].byOp)
            => i = j

\* the positions of runSyncOnce past acquireLock and before releaseLock
PastLock == {"health", "load", "call", "apply", "remove"}

\* C2: of two invocations of runSyncOnce that overlap, at most one is past
\* the lock, probing the service, reading the queue or calling the service.
C2_MutualExclusion ==
    \A c, d \in Ctx : (pc[c] \in PastLock /\ pc[d] \in PastLock) => c = d

\* what entitles the Sync Worker to remove op after its call settled with res
RemovalJustified(op, res) ==
    \/ res.ok
    \/ op.type = "create_list" /\ IsDuplicate(res.msg)
    \/ op.type \in {"update_item", "delete_item"} /\ IsNotFoundError(res.msg)

\* C3: the Sync Worker marks an operation for removal only when its call
\* succeeded, or it is a create_list answered "already exists", or it is an
\* update_item or delete_item answered "not found"; removeOperations removes
\* the marked operations only and leaves every other operation in the queue
\* with the payload it had.
C3_RemovedOnlyWhenSettled ==
    [][\A c \in Ctx :
          /\ (pc[c] = "apply" /\ pc'[c] # "apply") =>
                LET op == run[c].batch[run[c].i]
                IN op.id \in SeqToSet(run'[c].processedIds)
                       => RemovalJustified(op, run[c].res)
          /\ (pc[c] = "remove" /\ pc'[c] # "remove") =>
                \A i \in 1..Len(queue) :
                    queue[i].id \notin SeqToSet(run[c].processedIds)
                        => queue[i] \in SeqToSet(queue')]_vars

\* C5: every list of the registry whose lastSeenRev and lastRemoteRev are
\* both non-null has lastSeenRev <= lastRemoteRev.
C5_SeenAtMostRemote ==
    \A i \in 1..Len(lists) :
        (lists[i].lastSeenRev # NULL /\ lists[i].lastRemoteRev # NULL)
            => lists[i].lastSeenRev <= lists[i].lastRemoteRev

\* the call of the create_list operation batch[i] of context c was answered
\* "already exists"
DuplicateAnswered(c) ==
    /\ run[c].i \in 1..Len(run[c].batch)
    /\ run[c].batch[run[c].i].type = "create_list"
    /\ ~run[c].res.ok
    /\ IsDuplicate(run[c].res.msg)

\* C9: when the call of a create_list operation is answered "already
\* exists", the Sync Worker sets the list's pendingCreate to false, emits
\* list-synced for the list and marks the operation, and the removal that
\* ends the same run takes every marked operation out of the queue.
C9_DuplicateCreateConverges ==
    [][\A c \in Ctx :
          /\ (pc[c] = "apply" /\ pc'[c] # "apply" /\ DuplicateAnswered(c)) =>
                LET op == run[c].batch[run[c].i]
                IN /\ \A k \in 1..Len(lists') :
                         lists'[k].listId = op.listId => ~lists'[k].pendingCreate
                   /\ effects' = <<ListSyncedFx(c, op.listId)>>
                   /\ op.id \in SeqToSet(run'[c].processedIds)
                   /\ pc'[c] = IF run[c].i = Len(run[c].batch) THEN "remove" ELSE "call"
          /\ (pc[c] = "remove" /\ pc'[c] # "remove") =>
                \A k \in 1..Len(queue') :
                    queue'[k].id \notin SeqToSet(run[c].processedIds)]_vars

\* a run whose create_list call was answered "already exists" has removed
\* the operation of a list that was pending and is pending no more
C9_Witness ==
    /\ pc["fg"] = "release"
    /\ DuplicateAnswered("fg")
    /\ run["fg"].processedIds = <<run["fg"].batch[run["fg"].i].id>>
    /\ \A k \in 1..Len(queue) : queue[k].type # "create_list"
    /\ Len(lists) = 1 /\ ~lists[1].pendingCreate

\* the probe of the tick has just failed
TickProbeFailed(fx) == Len(fx) > 0 /\ fx[1] = CallFx("healthz", "tick", FALSE)

\* C10: a tick whose probe returned false or timed out emits the health
\* event with value false, and nothing else, makes no other remote call,
\* returns and leaves the queue, the registry and the item caches as they
\* were; a Sync Worker run whose probe returned false makes no further call,
\* and none of its steps changes the queue, the registry or the item caches.
C10_OfflineShortCircuit ==
    [][/\ TickProbeFailed(effects') =>
             /\ effects' = <<CallFx("healthz", "tick", FALSE), HealthFx("tick", FALSE)>>
             /\ tpc' = "idle"
             /\ UNCHANGED <<queue, lists, items>>
       /\ \A c \in Ctx :
             /\ (pc[c] = "health" /\ pc'[c] # "health" /\ run'[c].online = "no") =>
                   /\ pc'[c] = "release"
                   /\ effects' = <<CallFx("healthz", c, FALSE)>>
                   /\ UNCHANGED <<queue, lists, items>>
             /\ (run[c].online = "no" /\ pc'[c] # pc[c]) =>
                   /\ pc[c] = "release" /\ pc'[c] = "idle"
                   /\ effects' = <<>>
                   /\ UNCHANGED <<queue, lists, items>>]_vars

\* a tick has just found the service down while an operation was queued and
\* a list registered
C10_Witness ==
    /\ effects = <<CallFx("healthz", "tick", FALSE), HealthFx("tick", FALSE)>>
    /\ tpc = "idle"
    /\ Len(queue) > 0
    /\ Len(lists) > 0

-----------------------------------------------------------------------------
(* TickSpec: the reconciliation worker on its timer, over a registry of
   lists that were created online or imported from a link (an imported list
   carries the placeholder name until its metadata is read), against a
   service whose rows may be tombstones or hold a ciphertext this client
   cannot decrypt *)

MaxTickRows == 2       \* item rows the service holds

TickListIds == {"a", "b"}

\* a ciphertext atob or JSON.parse rejects
BadCipher == <<"garbage">>

\* the item another client stored
TickPlain == [label |-> "X", flags |-> Checked]

\* the row of list_items with primary key and rev i, as another client's
\* request left it
TickRow(listId, kind, i) ==
    [listId |-> listId,
     ciphertextB64 |-> IF kind = "bad" THEN BadCipher
                       ELSE EncryptJson(TickPlain).ciphertextB64,
     nonceB64 |-> FixedNonce, rev |-> i, deleted |-> (kind = "deleted"),
     byOp |-> 0, acked |-> TRUE]

TickRowSeqs ==
    {[i \in 1..Len(s) |-> TickRow(s[i][1], s[i][2], i)] :
        s \in SeqsUpTo(TickListIds \X {"good", "bad", "deleted"}, MaxTickRows)}

\* the registry entry of a list the service has acknowledged or that was
\* imported; lastSeenRev is null or, after the user viewed the list, the
\* cursor
TickStoredLists(listId, revs, pending) ==
    {l \in [listId : {listId}, name : {PLACEHOLDER_NAME, "A"},
            lastSeenRev : {NULL} \cup revs, lastRemoteRev : {NULL} \cup revs,
            pendingCreate : pending, removedFromServer : BOOLEAN] :
        l.lastSeenRev \in {NULL, l.lastRemoteRev}}

TickRegistries ==
    {<<a>> : a \in TickStoredLists("a", 1..MaxTickRows, BOOLEAN)}
    \cup {<<a, b>> : a \in TickStoredLists("a", 1..MaxTickRows, BOOLEAN),
                     b \in TickStoredLists("b", {}, {FALSE})}

\* the item caches the tick may find: empty, or an item the user added
\* offline ahead of item 1
TickCaches ==
    {<<>>, <<[itemId |-> NULL, label |-> "A", flags |-> NoFlags],
             [itemId |-> 1, label |-> "A", flags |-> NoFlags]>>}

TickInit ==
    /\ lists \in TickRegistries
    /\ items \in [TickListIds -> TickCaches]
    /\ items["b"] = <<>>
    /\ srvLists \in SUBSET TickListIds
    /\ srvItems \in TickRowSeqs
    /\ \A i \in 1..Len(srvItems) : srvItems[i].listId \in srvLists
    /\ items["a"] # <<>> => (Len(srvItems) >= 1 /\ srvItems[1].listId = "a")
    /\ srvRev = Len(srvItems)
    /\ queue = <<>>
    /\ nextOpId = 1
    /\ mergeIn = NoMergeIn
    /\ qHist = NoQHist
    /\ BusAtRest
    /\ IoAtRest
    /\ Quiescent

TickSpec == TickInit /\ [][TickStep]_vars

\* the list whose iteration the tick runs next
TickAt == tick.stored[tick.i]

\* this step is one iteration of the tick's loop over the lists
TickIterates == tpc = "list" /\ Len(tick'.updated) = Len(tick.updated) + 1

\* this step is the end of a tick that got past the probe and the load
TickFinishes == tpc = "save" /\ tpc' = "idle"

\* fx holds the call of api by the tick, resolved or not as ok says
TickCalled(fx, api, ok) == \E k \in 1..Len(fx) : fx[k] = CallFx(api, "tick", ok)

TickEmitted(fx) == \E k \in 1..Len(fx) : fx[k] = ListsChangedFx("tick")

\* C11: for a list with a non-placeholder name whose item fetch reports a
\* latest_rev equal to the lastRemoteRev the tick loaded, the iteration
\* leaves the registry and the item caches as they are, hands the entry on
\* as loaded and does not raise the tick's changed flag; a tick whose
\* changed flag was not raised saves nothing and emits no state-changed
\* event.
C11_NoChangeAtCursor ==
    [][/\ (/\ TickIterates
           /\ TickAt.name # PLACEHOLDER_NAME
           /\ TickCalled(effects', "fetchItems", TRUE)
           /\ SrvLatestRev(TickAt.listId) = TickAt.lastRemoteRev) =>
              /\ UNCHANGED <<lists, items>>
              /\ tick'.updated = Append(tick.updated, TickAt)
              /\ tick'.changed = tick.changed
              /\ ~TickEmitted(effects')
       /\ (TickFinishes /\ ~tick.changed) =>
              /\ UNCHANGED <<lists, items>>
              /\ effects' = <<>>]_vars

\* a tick over one list that holds items and the cursor 2 has fetched from a
\* service whose latest revision for the list is 2, and is about to finish
\* with nothing to save
C11_Witness ==
    /\ tpc = "save"
    /\ Len(tick.stored) = 1
    /\ tick.stored[1].name # PLACEHOLDER_NAME
    /\ tick.stored[1].lastRemoteRev = 2
    /\ SrvLatestRev(tick.stored[1].listId) = 2
    /\ effects = <<CallFx("fetchItems", "tick", TRUE)>>
    /\ ~tick.changed
    /\ tick.updated = tick.stored
    /\ items[tick.stored[1].listId] # <<>>

-----------------------------------------------------------------------------
(* DrainSpec: the Sync Worker of the foreground context draining the queue
   that offline use left, against a service and a network that may answer
   each request in any way *)

DrainNext == SyncStep("fg")

DrainSpec == LiveInit /\ [][DrainNext]_vars

\* the call of batch[i] of context c was answered "Too many requests"
RateLimited(c) ==
    /\ run[c].i \in 1..Len(run[c].batch)
    /\ ~run[c].res.ok
    /\ IsRateLimit(run[c].res.msg)

\* apiCreateItem resolved for the create_item operation op
CreateAcked(op) ==
    \E k \in 1..Len(srvItems) : srvItems[k].acked /\ srvItems[k].byOp = op.id

\* C12: when the call of an operation is answered "Too many requests", the
\* Sync Worker leaves the batch loop without marking the operation, makes no
\* further remote call in that run, and the removal that ends the run leaves
\* the rate-limited operation and every later operation of the batch in the
\* queue while it takes out every marked operation, so every operation of
\* the batch whose call had been acknowledged.
C12_RateLimitAbortsBatch ==
    [][\A c \in Ctx :
          /\ (pc[c] = "apply" /\ pc'[c] # "apply" /\ RateLimited(c)) =>
                /\ pc'[c] = "remove"
                /\ run'[c].processedIds = run[c].processedIds
                /\ UNCHANGED <<queue, lists, items>>
          /\ (RateLimited(c) /\ pc[c] # "apply" /\ pc'[c] # pc[c]) =>
                /\ pc'[c] \in {"release", "idle"}
                /\ \A k \in 1..Len(effects') : effects'[k].kind # "call"
          /\ (pc[c] = "remove" /\ pc'[c] # "remove" /\ RateLimited(c)) =>
                /\ \A k \in run[c].i..Len(run[c].batch) :
                      InQueue(run[c].batch[k].id) => run[c].batch[k] \in SeqToSet(queue')
                /\ \A k \in 1..Len(queue') :
                      queue'[k].id \notin SeqToSet(run[c].processedIds)
                /\ \A k \in 1..(run[c].i - 1) :
                      (run[c].batch[k].type = "create_item" /\ CreateAcked(run[c].batch[k]))
                          => \A j \in 1..Len(queue') : queue'[j].id # run[c].batch[k].id]_vars

\* a run over a queue of four found the first call acknowledged and the
\* second answered "Too many requests": it made no third call and removed
\* the first operation only
C12_Witness ==
    /\ pc["fg"] = "release"
    /\ RateLimited("fg")
    /\ Len(run["fg"].batch) = 3 /\ run["fg"].i = 2
    /\ CreateAcked(run["fg"].batch[1])
    /\ ~CreateAcked(run["fg"].batch[3])
    /\ Len(queue) = 3
    /\ \A k \in 1..3 : queue[k].id = k + 1

-----------------------------------------------------------------------------
(* LockSpec: runSyncOnce of the foreground context finding, under LOCK_KEY,
   whatever an earlier run of another context may have left there *)

\* a stored value acquireLock cannot use: JSON.parse rejects it (the inner
\* catch ignores that) or the parsed value has no ts
MalformedLock == [owner |-> 99, ts |-> 0]

\* the ages, in ms, of the record another run left
LockAges == {1, SYNC_INTERVAL_MS, LOCK_TTL_MS - 1, LOCK_TTL_MS, LOCK_TTL_MS + 1,
             LOCK_TTL_MS + SYNC_INTERVAL_MS}

LockRecords(now) ==
    {NoLock, MalformedLock} \cup {[owner |-> 99, ts |-> now - age] : age \in LockAges}

LockInit ==
    /\ clock = 2 * LOCK_TTL_MS
    /\ lockRec \in LockRecords(clock)
    /\ lists = <<NewPendingList("a", MetaPlain("a").name)>>
    /\ queue = <<MkOp(1, "create_list", "a", NULL,
                      EncryptJson(MetaPlain("a")).ciphertextB64,
                      EncryptJson(MetaPlain("a")).nonceB64)>>
    /\ nextOpId = 2
    /\ items = [l \in ListIds |-> <<>>]
    /\ srvLists = {}
    /\ srvItems = <<>>
    /\ srvRev = 0
    /\ nextRunId = 1
    /\ running = [c \in Ctx |-> FALSE]
    /\ pc = [c \in Ctx |-> "idle"]
    /\ run = [c \in Ctx |-> NoRun]
    /\ tpc = "idle"
    /\ tick = NoTick
    /\ effects = <<>>
    /\ mergeIn = NoMergeIn
    /\ qHist = NoQHist
    /\ BusAtRest
    /\ IoAtRest

\* a timer period elapses
LockAdvanceClock ==
    /\ clock < 2 * LOCK_TTL_MS + SYNC_INTERVAL_MS * MaxClockSteps
    /\ clock' = clock + SYNC_INTERVAL_MS
    /\ effects' = <<>>
    /\ UNCHANGED <<storeVars, srvVars, nextOpId, syncVars, tickVars, auxVars, busVars,
                   ioVars>>

LockNext == SyncStep("fg") \/ LockAdvanceClock

LockSpec == LockInit /\ [][LockNext]_vars

\* raw is a well-formed lock record less than 30000 ms old at now
FreshLock(raw, now) ==
    /\ raw \notin {NoLock, MalformedLock}
    /\ raw.owner # 0 /\ raw.ts > 0
    /\ now - raw.ts < 30000

-----------------------------------------------------------------------------
(* HangSpec: the Sync Worker and the reconciliation worker of the foreground
   context on their interval timers, with a service whose answer to a
   liveness probe may never arrive. Every timer keeps firing, every
   AsyncStorage call settles and every other request is answered; the
   answer to GET /healthz is the one thing that is not promised. *)

\* apiHealthz() of runSyncOnce settles: nothing in runSyncOnce or apiFetch
\* bounds the wait
HangProbeAnswered == Health("fg")

\* healthzWithTimeout: the answer arrives within HEALTHZ_TIMEOUT_MS
HangTickProbeAnswered == TickHealthAs(TRUE)

\* healthzWithTimeout: the answer is false, or the setTimeout of
\* HEALTHZ_TIMEOUT_MS wins the race and resolves false
HangTickProbeTimeout == TickHealthAs(FALSE)

HangNext ==
    \/ LiveRunStart
    \/ AcquireGet("fg")
    \/ AcquireSet("fg")
    \/ HangProbeAnswered
    \/ LoadQueue("fg")
    \/ Call("fg")
    \/ Apply("fg")
    \/ Remove("fg")
    \/ Release("fg")
    \/ HangTickProbeAnswered
    \/ HangTickProbeTimeout
    \/ TickLoad
    \/ TickList
    \/ TickSave

\* setInterval and setTimeout fire, awaited storage calls and the requests
\* other than the probe settle
HangFairness ==
    /\ WF_vars(LiveRunStart)
    /\ WF_vars(AcquireGet("fg"))
    /\ WF_vars(AcquireSet("fg"))
    /\ WF_vars(LoadQueue("fg"))
    /\ WF_vars(Call("fg"))
    /\ WF_vars(Apply("fg"))
    /\ WF_vars(Remove("fg"))
    /\ WF_vars(Release("fg"))
    /\ WF_vars(HangTickProbeTimeout)
    /\ WF_vars(TickLoad)
    /\ WF_vars(TickList)
    /\ WF_vars(TickSave)

HangSpec == RaceInit /\ [][HangNext]_vars /\ HangFairness

\* C14: every started Sync Worker run eventually finishes, resetting the
\* running flag and releasing its lock, every tick that got past its probe
\* eventually finishes, and the timer keeps getting new runs started, even
\* if the answer to a liveness probe never arrives.
C14_RunsAndTicksFinish ==
    /\ running["fg"] ~> ~running["fg"]
    /\ (lockRec # NoLock) ~> (lockRec = NoLock)
    /\ (tpc # "idle") ~> (tpc = "idle")
    /\ []<>(pc["fg"] = "lock_get")

\* a run holds the lock and the running flag and awaits apiHealthz()
C14_Witness ==
    /\ pc["fg"] = "health"
    /\ running["fg"]
    /\ lockRec.owner = run["fg"].runId
    /\ Len(queue) = 2

-----------------------------------------------------------------------------
(* FaultSpec: the two workers of the foreground context when AsyncStorage
   calls may reject and subscribed listeners may throw. The actions below
   are the paths of runSyncOnce and runHealthAndSyncOnce from such a throw
   to the catch block that takes it, and on to where the function settles.
   (A rejected mergeRemoteItemsIntoLocal is taken by the catch of the item
   fetch and leaves the tick where a failed fetch leaves it.) *)

\* the promise of an invocation settles: resolved (the tick with []) or
\* rejected with the error that escaped
SettledFx(by, resolved) ==
    [kind |-> "settle", name |-> IF resolved THEN "resolve" ELSE "reject",
     by |-> by, ok |-> resolved, listId |-> "",
     opId |-> 0, err |-> "", item |-> NoItem]

\* the catch block of runHealthAndSyncOnce: emitHealth(false), return [];
\* thrown says whether a health listener throws from this emitHealth
TickCatch(thrown) == <<HealthFx("tick", FALSE), SettledFx("tick", ~thrown)>>

\* syncEvents.emitHealth(ok) throws from a listener
TickHealthListenerThrows ==
    /\ tpc = "idle"
    /\ \E ok \in BOOLEAN, thrown \in BOOLEAN :
          effects' = <<CallFx("healthz", "tick", ok), HealthFx("tick", ok)>>
                     \o TickCatch(thrown)
    /\ tpc' = "idle"
    /\ tick' = NoTick
    /\ UNCHANGED <<storeVars, srvVars, busVars, ioVars, clock, nextOpId, syncVars, auxVars>>

\* loadStoredLists() rejects: AsyncStorage.getItem is outside its try
TickLoadFails ==
    /\ tpc = "load"
    /\ \E thrown \in BOOLEAN : effects' = TickCatch(thrown)
    /\ tpc' = "idle"
    /\ tick' = NoTick
    /\ UNCHANGED <<storeVars, srvVars, busVars, ioVars, clock, nextOpId, syncVars, auxVars>>

\* saveStoredLists(updated) rejects
TickSaveFails ==
    /\ tpc = "save" /\ tick.changed
    /\ \E thrown \in BOOLEAN : effects' = TickCatch(thrown)
    /\ tpc' = "idle"
    /\ tick' = NoTick
    /\ UNCHANGED <<storeVars, srvVars, busVars, ioVars, clock, nextOpId, syncVars, auxVars>>

\* saveStoredLists(updated) resolves and syncEvents.emitListsChanged()
\* throws from a listener
TickListsChangedListenerThrows ==
    /\ tpc = "save" /\ tick.changed
    /\ lists' = tick.updated
    /\ \E thrown \in BOOLEAN : effects' = <<ListsChangedFx("tick")>> \o TickCatch(thrown)
    /\ tpc' = "idle"
    /\ tick' = NoTick
    /\ UNCHANGED <<queue, lockRec, items, srvVars, busVars, ioVars, clock, nextOpId, syncVars, auxVars>>

\* acquireLock: getItem or setItem rejects, "lock error, proceed anyway"
SyncAcquireFails(c) ==
    /\ pc[c] \in {"lock_get", "lock_set"}
    /\ pc' = [pc EXCEPT ![c] = "health"]
    /\ effects' = <<>>
    /\ UNCHANGED <<storeVars, srvVars, busVars, ioVars, clock, nextOpId, nextRunId, running, run,
                   tickVars, auxVars>>

\* loadQueue() or getClientId() rejects: the outer catch, then finally
SyncLoadFails(c) ==
    /\ pc[c] = "load"
    /\ pc' = [pc EXCEPT ![c] = "release"]
    /\ effects' = <<>>
    /\ UNCHANGED <<storeVars, srvVars, busVars, ioVars, clock, nextOpId, nextRunId, running, run,
                   tickVars, auxVars>>

\* markListSynced / updateLastSeenRev rejects (stored is FALSE), or
\* emitListSynced / emitItemSynced throws from a listener (stored is TRUE).
\* In the try block the inner catch takes the error, whose message matches
\* none of its tests: the operation is not pushed and the loop goes on. In
\* the catch block (duplicate create_list) the error leaves the loop for
\* the outer catch.
SyncApplyThrows(c) ==
    /\ pc[c] = "apply"
    /\ LET op == run[c].batch[run[c].i]
           res == run[c].res
           d == Decision(op, res)
           last == run[c].i = Len(run[c].batch)
       IN /\ d \in {"ack_list", "ack_item"}
          /\ \E stored \in BOOLEAN :
                /\ lists' = IF ~stored THEN lists
                            ELSE IF d = "ack_list" THEN MarkListSynced(lists, op.listId)
                            ELSE UpdateLastSeenRev(lists, op.listId, res.rev)
                /\ effects' = IF ~stored THEN <<>>
                              ELSE IF d = "ack_list" THEN <<ListSyncedFx(c, op.listId)>>
                              ELSE <<ItemSyncedFx(c, op.listId, op.id, ItemOf(res))>>
          /\ run' = [run EXCEPT ![c].i = IF res.ok /\ ~last THEN @ + 1 ELSE @]
          /\ pc' = [pc EXCEPT ![c] = IF ~res.ok THEN "release"
                                     ELSE IF last THEN "remove" ELSE "call"]
    /\ UNCHANGED <<queue, lockRec, items, srvVars, busVars, ioVars, clock, nextOpId, nextRunId,
                   running, tickVars, auxVars>>

\* removeOperations(processedIds) rejects: the outer catch, then finally
SyncRemoveFails(c) ==
    /\ pc[c] = "remove"
    /\ Len(run[c].processedIds) > 0
    /\ pc' = [pc EXCEPT ![c] = "release"]
    /\ effects' = <<>>
    /\ UNCHANGED <<storeVars, srvVars, busVars, ioVars, clock, nextOpId, nextRunId, running, run,
                   tickVars, auxVars>>

\* releaseLock: getItem or removeItem rejects, "unlock error"; the finally
\* block goes on and runSyncOnce resolves
SyncReleaseFails(c) ==
    /\ pc[c] = "release"
    /\ running' = [running EXCEPT ![c] = FALSE]
    /\ run' = [run EXCEPT ![c] = NoRun]
    /\ pc' = [pc EXCEPT ![c] = "idle"]
    /\ effects' = <<SettledFx(c, TRUE)>>
    /\ UNCHANGED <<storeVars, srvVars, busVars, ioVars, clock, nextOpId, nextRunId, tickVars, auxVars>>

FaultNext ==
    \/ LiveRunStart
    \/ AcquireGet("fg")
    \/ AcquireSet("fg")
    \/ Health("fg")
    \/ LoadQueue("fg")
    \/ Call("fg")
    \/ Apply("fg")
    \/ Remove("fg")
    \/ Release("fg")
    \/ TickStep
    \/ SyncAcquireFails("fg")
    \/ SyncLoadFails("fg")
    \/ SyncApplyThrows("fg")
    \/ SyncRemoveFails("fg")
    \/ SyncReleaseFails("fg")
    \/ TickHealthListenerThrows
    \/ TickLoadFails
    \/ TickSaveFails
    \/ TickListsChangedListenerThrows

FaultSpec == RaceInit /\ [][FaultNext]_vars

\* C15: whatever remote calls fail, AsyncStorage calls reject and listeners
\* throw, no invocation of runSyncOnce or runHealthAndSyncOnce settles
\* rejected: each resolves, the tick with an empty list after a failure.
C15_NeverRejects ==
    \A k \in 1..Len(effects) : effects[k].kind = "settle" => effects[k].ok

\* a run of the Sync Worker whose releaseLock failed has resolved, with a
\* pending operation still queued
C15_Witness ==
    /\ effects = <<SettledFx("fg", TRUE)>>
    /\ pc["fg"] = "idle" /\ ~running["fg"]
    /\ lockRec # NoLock
    /\ Len(queue) > 0

-----------------------------------------------------------------------------
(* Properties of the reconciliation tick among the other writers of the
   registry *)

\* C16: the registry save of a tick leaves every list of the registry in
\* place with the lastSeenRev that storage held just before the save, also
\* when a Sync Worker run or a user view wrote lastSeenRev after the tick
\* had loaded the registry.
C16_TickKeepsLastSeenRev ==
    [][TickFinishes =>
          \A j \in 1..Len(lists) :
              \E i \in 1..Len(lists') :
                  /\ lists'[i].listId = lists[j].listId
                  /\ lists'[i].lastSeenRev = lists[j].lastSeenRev]_vars

\* a tick is about to save the registry it loaded before the Sync Worker
\* recorded revision 1 as seen
C16_Witness ==
    /\ tpc = "save" /\ tick.changed
    /\ Len(lists) = 1 /\ Len(tick.updated) = 1
    /\ lists[1].lastSeenRev = 1
    /\ tick.updated[1].lastSeenRev = NULL

\* the answers of the service that say that it no longer has the list:
\* HTTP 404 and HTTP 410, the two statuses ListScreen takes for a removal
ListMissing(msg) == msg \in {MsgListNotFound, MsgListGone}

\* fx holds a call of api by the tick that failed with a not-found or gone
\* answer
TickNotFound(fx, api) ==
    \E k \in 1..Len(fx) :
        /\ fx[k].kind = "call" /\ fx[k].name = api /\ fx[k].by = "tick"
        /\ ~fx[k].ok /\ ListMissing(fx[k].err)

\* fx holds a call by the tick that failed with another error
TickOtherError(fx) ==
    \E k \in 1..Len(fx) :
        /\ fx[k].kind = "call" /\ fx[k].by = "tick"
        /\ ~fx[k].ok /\ ~ListMissing(fx[k].err)

\* C17: when apiGetList for a placeholder-named list, or apiFetchItems for a
\* list, fails with a not-found or gone answer, the iteration hands the list
\* on with removedFromServer true and raises the tick's changed flag, and that
\* failed call is the last remote call of the iteration; the save that ends
\* the tick writes every list so flagged to the registry and emits
\* state-changed. An iteration whose calls failed with other errors only
\* hands the list on with removedFromServer as it was.
C17_NotFoundMarksRemoved ==
    [][/\ TickIterates =>
             LET newL == tick'.updated[Len(tick'.updated)]
                 fx == effects'
             IN /\ TickNotFound(fx, "getList") =>
                      /\ TickAt.name = PLACEHOLDER_NAME
                      /\ newL = [TickAt EXCEPT !.removedFromServer = TRUE]
                      /\ tick'.changed
                      /\ Len(fx) = 1
                      /\ UNCHANGED items
                /\ TickNotFound(fx, "fetchItems") =>
                      /\ newL.removedFromServer
                      /\ newL.listId = TickAt.listId
                      /\ tick'.changed
                      /\ fx[Len(fx)].name = "fetchItems"
                      /\ UNCHANGED items
                /\ (/\ TickOtherError(fx)
                    /\ ~TickNotFound(fx, "getList")
                    /\ ~TickNotFound(fx, "fetchItems")) =>
                      newL.removedFromServer = TickAt.removedFromServer
       /\ TickFinishes =>
             \A i \in 1..Len(tick.updated) :
                 (tick.updated[i].removedFromServer /\ ~tick.stored[i].removedFromServer)
                     => /\ lists'[i] = tick.updated[i]
                        /\ effects' = <<ListsChangedFx("tick")>>]_vars

\* the item fetch of the first of two lists was answered 410 Gone: the tick
\* has gone on to the second list and has left the first one unflagged
C17_Witness ==
    /\ tpc = "list"
    /\ Len(tick.stored) = 2 /\ tick.i = 2
    /\ effects = <<FetchFx("fetchItems", "gone")>>
    /\ tick.stored[1].listId \notin srvLists
    /\ tick.updated = <<tick.stored[1]>>
    /\ ~tick.updated[1].removedFromServer
    /\ ~tick.changed

\* the entries of a fetch that the tick cannot decrypt
Undecryptable(rows) ==
    {k \in 1..Len(rows) : ~rows[k].deleted /\ ~CanDecrypt(rows[k].ciphertext_b64)}

\* the cached items of cache that carry the server id itemId
CachedAs(cache, itemId) ==
    {cache[k] : k \in {j \in 1..Len(cache) : cache[j].itemId = itemId}}

\* C18: when an entry of a resolved item fetch does not decrypt, the iteration
\* still merges every other entry of the fetch into the list's item cache (a
\* tombstone removes the cached item, an upsert stores the decrypted label
\* and flags), leaves the cached copy of the undecryptable item and the
\* local-only items as they were, advances lastRemoteRev to the reported
\* latest_rev, and goes on to the next list; the tick reaches its save only
\* after it has handled every list it loaded.
C18_DecryptFailureIsolated ==
    [][/\ (/\ TickIterates
           /\ TickCalled(effects', "fetchItems", TRUE)
           /\ Undecryptable(SrvRows(TickAt.listId, TickAt.lastRemoteRev)) # {}) =>
              LET id == TickAt.listId
                  rows == SrvRows(id, TickAt.lastRemoteRev)
                  newL == tick'.updated[Len(tick'.updated)]
              IN /\ \A k \in 1..Len(rows) :
                        CASE k \in Undecryptable(rows) ->
                                CachedAs(items'[id], rows[k].item_id)
                                    = CachedAs(items[id], rows[k].item_id)
                          [] rows[k].deleted ->
                                CachedAs(items'[id], rows[k].item_id) = {}
                          [] OTHER ->
                                CachedAs(items'[id], rows[k].item_id) =
                                    {[itemId |-> rows[k].item_id,
                                      label |-> DecryptJson(rows[k].ciphertext_b64).label,
                                      flags |-> DecryptJson(rows[k].ciphertext_b64).flags]}
                 /\ SelectSeq(items'[id], IsLocalOnly) = SelectSeq(items[id], IsLocalOnly)
                 /\ \A other \in TickListIds \ {id} : items'[other] = items[other]
                 /\ newL.lastRemoteRev = SrvLatestRev(id)
                 /\ newL.lastRemoteRev # TickAt.lastRemoteRev
                 /\ tick'.changed
                 /\ IF tick.i < Len(tick.stored)
                    THEN tpc' = "list" /\ tick'.i = tick.i + 1
                    ELSE tpc' = "save"
       /\ TickFinishes => Len(tick.updated) = Len(tick.stored)]_vars

\* the fetch for the first of two lists returned an entry that does not
\* decrypt followed by an upsert: the cache holds the upsert next to the old
\* copy of the undecryptable item and the local-only item, the cursor is at 2
\* and the tick is at the second list
C18_Witness ==
    /\ tpc = "list"
    /\ Len(tick.stored) = 2 /\ tick.i = 2
    /\ effects = <<CallFx("fetchItems", "tick", TRUE)>>
    /\ Len(srvItems) = 2
    /\ srvItems[1] = TickRow("a", "bad", 1)
    /\ srvItems[2] = TickRow("a", "good", 2)
    /\ tick.stored[1].lastRemoteRev = NULL
    /\ tick.updated[1].lastRemoteRev = 2
    /\ items["a"] = <<[itemId |-> NULL, label |-> "A", flags |-> NoFlags],
                      [itemId |-> 1, label |-> "A", flags |-> NoFlags],
                      [itemId |-> 2, label |-> TickPlain.label, flags |-> TickPlain.flags]>>

\* the tick has handed on, so far, an entry that differs from the one it
\* loaded
TickChangedAnEntry ==
    \E i \in 1..Len(tick.updated) : tick.updated[i] # tick.stored[i]

\* the number of state-changed events in fx
NumListsChanged(fx) ==
    Cardinality({k \in 1..Len(fx) :
                    /\ fx[k].kind = ListsChangedFx("tick").kind
                    /\ fx[k].name = ListsChangedFx("tick").name})

-----------------------------------------------------------------------------
(* Properties of the order of the queue. The ids of the model are issued in
   the order of the enqueue calls, so the order of the ids is the order in
   which the operations were enqueued. *)

\* the ids of the operations of q, in the order of q
OpIds(q) == [i \in 1..Len(q) |-> q[i].id]

\* q holds its operations in the order in which they were enqueued
InEnqueueOrder(q) == \A i, j \in 1..Len(q) : i < j => q[i].id < q[j].id

\* C20: after every enqueue, removeOperations and updateCreateItemOpCipher
\* call the queue holds its operations in the order in which they were
\* enqueued: a call that adds an operation leaves the operations it found in
\* place and puts the new one behind them, and a removal or a payload
\* rewrite leaves, of the operations it found, those that remain in the order
\* they had, each with its id, kind and target.
C20_QueueKeepsEnqueueOrder ==
    [][/\ InEnqueueOrder(queue')
       /\ IF nextOpId' # nextOpId
          THEN /\ Len(queue') = Len(queue) + 1
               /\ SubSeq(queue', 1, Len(queue)) = queue
               /\ queue'[Len(queue')].id = nextOpId
          ELSE /\ OpIds(queue') =
                     SelectSeq(OpIds(queue),
                               LAMBDA id : \E k \in 1..Len(queue') : queue'[k].id = id)
               /\ \A k \in 1..Len(queue') : \E i \in 1..Len(queue) :
                     /\ queue[i].id = queue'[k].id
                     /\ queue[i].type = queue'[k].type
                     /\ queue[i].listId = queue'[k].listId
                     /\ queue[i].itemId = queue'[k].itemId]_vars

\* three operations were enqueued, a sync run removed the second and the
\* third, a create_item operation, was rewritten: the first and the third
\* remain, in that order
C20_Witness ==
    /\ nextOpId = 4
    /\ qHist.synced
    /\ OpIds(queue) = <<1, 3>>
    /\ \E k \in 1..Len(qHist.created) :
          /\ qHist.created[k].opId = 3
          /\ qHist.created[k].rewrites >= 1
          /\ queue[2].ciphertextB64 = qHist.created[k].ciphertextB64

-----------------------------------------------------------------------------
(* BusSpec: components subscribing to and unsubscribing from the two event
   buses while the workers emit. An unsubscribe function may be called more
   than once. *)

MaxHandlers == 3       \* subscribe calls

\* the events the workers emit
BusEvents ==
    {HealthFx("tick", ok) : ok \in BOOLEAN}
    \cup {ListsChangedFx("tick")}
    \cup {ListSyncedFx("fg", l) : l \in ListIds}
    \cup {ItemSyncedFx("fg", l, 1, [item_id |-> 1, rev |-> 1]) : l \in ListIds}

BusInit ==
    /\ queue = <<>>
    /\ nextOpId = 1
    /\ lists = <<>>
    /\ items = [l \in ListIds |-> <<>>]
    /\ srvLists = {}
    /\ srvItems = <<>>
    /\ srvRev = 0
    /\ mergeIn = NoMergeIn
    /\ qHist = NoQHist
    /\ BusAtRest
    /\ IoAtRest
    /\ Quiescent

\* subscribe / subscribeListsChanged / subscribeHealth of syncEvents and
\* subscribe of itemSyncEvents, called with a new closure
BusSubscribe(ch) ==
    /\ Len(closures) < MaxHandlers
    /\ LET h == Len(closures) + 1
       IN /\ listeners' = [listeners EXCEPT ![ch] = Append(@, h)]
          /\ invoked' = Replay(ch, lastHealth, h)
          /\ closures' = Append(closures, [channel |-> ch, called |-> FALSE])
    /\ effects' = <<>>
    /\ UNCHANGED <<storeVars, srvVars, ioVars, clock, nextOpId, syncVars, tickVars,
                   auxVars, lastHealth>>

\* the function a subscribe call returned is called
BusUnsubscribe(h) ==
    /\ listeners' = [listeners EXCEPT ![closures[h].channel] = FilterOut(@, h)]
    /\ closures' = [closures EXCEPT ![h].called = TRUE]
    /\ invoked' = <<>>
    /\ effects' = <<>>
    /\ UNCHANGED <<storeVars, srvVars, ioVars, clock, nextOpId, syncVars, tickVars,
                   auxVars, lastHealth>>

\* emitListSynced / emitListsChanged / emitHealth / emitItemSynced
BusEmit(fx) ==
    /\ invoked' = ForEach(listeners[fx.name], fx)
    /\ lastHealth' = IF fx.name = "health" THEN <<fx.ok>> ELSE lastHealth
    /\ effects' = <<fx>>
    /\ UNCHANGED <<storeVars, srvVars, ioVars, clock, nextOpId, syncVars, tickVars,
                   auxVars, listeners, closures>>

BusNext ==
    \/ \E ch \in Channels : BusSubscribe(ch)
    \/ \E h \in 1..Len(closures) : BusUnsubscribe(h)
    \/ \E fx \in BusEvents : BusEmit(fx)

BusSpec == BusInit /\ [][BusNext]_vars

\* the step is a subscribe call on channel ch
Subscribes(ch) ==
    /\ Len(closures') = Len(closures) + 1
    /\ closures'[Len(closures')].channel = ch

\* the step is an emit
Emits == effects' # <<>>

\* C21: a subscribeHealth call on a bus that has emitted a liveness value
\* calls the new handler, within the call, exactly once and with the value
\* of the most recent emitHealth, and calls no other handler; on a bus that
\* has not emitted one it calls nothing; a subscribe call on the listSynced,
\* itemSynced or listsChanged channel calls nothing, whatever was emitted
\* before. The value kept for the replay is null until the first emitHealth
\* and then the argument of the last one.
C21_HealthReplay ==
    [][/\ Subscribes("health") =>
              IF lastHealth # <<>>
              THEN invoked' = <<Invocation(Len(closures'), "health", lastHealth[1], "", 0)>>
              ELSE invoked' = <<>>
       /\ (\E ch \in Channels \ {"health"} : Subscribes(ch)) => invoked' = <<>>
       /\ IF Emits /\ effects'[1].name = "health"
          THEN lastHealth' = <<effects'[1].ok>>
          ELSE UNCHANGED lastHealth]_vars

\* after emitHealth(false), a third subscriber, the second of the health
\* channel, has just been called with false
C21_Witness ==
    /\ lastHealth = <<FALSE>>
    /\ [h \in 1..Len(closures) |-> closures[h].channel] = <<"health", "listSynced", "health">>
    /\ listeners["health"] = <<1, 3>>
    /\ invoked = <<Invocation(3, "health", FALSE, "", 0)>>

\* the handlers subscribed to ch whose unsubscribe function has not been
\* called, in the order of their subscribe calls
Subscribed(cl, ch) ==
    SelectSeq([h \in 1..Len(cl) |-> h],
              LAMBDA h : cl[h].channel = ch /\ ~cl[h].called)

-----------------------------------------------------------------------------
(* Properties of the tick's treatment of the lists created offline *)

\* C23: the iteration of a list marked pendingCreate makes no remote call,
\* neither apiGetList nor apiFetchItems, hands the entry on as loaded, leaves
\* the item caches and the tick's changed flag as they are; and the save
\* that ends the tick leaves name, lastRemoteRev and removedFromServer of
\* every list marked pendingCreate as the registry held them.
C23_PendingCreateLeftAlone ==
    [][/\ (TickIterates /\ TickAt.pendingCreate) =>
              /\ effects' = <<>>
              /\ tick'.updated = Append(tick.updated, TickAt)
              /\ tick'.changed = tick.changed
              /\ UNCHANGED <<lists, items>>
       /\ TickFinishes =>
              \A i \in 1..Len(lists) :
                  lists[i].pendingCreate =>
                      /\ Len(lists') = Len(lists)
                      /\ lists'[i].listId = lists[i].listId
                      /\ lists'[i].pendingCreate
                      /\ lists'[i].name = lists[i].name
                      /\ lists'[i].lastRemoteRev = lists[i].lastRemoteRev
                      /\ lists'[i].removedFromServer = lists[i].removedFromServer]_vars

\* a tick over a list created offline, still named by the placeholder, and
\* a second list whose fetch brought changes has saved the registry: the
\* first entry is as it was
C23_Witness ==
    /\ tpc = "idle"
    /\ effects = <<ListsChangedFx("tick")>>
    /\ Len(lists) = 2
    /\ lists[1].pendingCreate
    /\ lists[1].name = PLACEHOLDER_NAME
    /\ lists[1].lastRemoteRev = NULL
    /\ ~lists[1].removedFromServer
    /\ lists[1].listId \in srvLists
    /\ lists[2].lastRemoteRev # NULL

-----------------------------------------------------------------------------
(* LocalAddSpec: the tick and a user adding items in ListScreen, on lists the
   service may no longer hold. The item caches start empty and the queue
   starts empty. *)

MaxLocalAdds == 2      \* items added to one list that was removed from the service

\* ListScreen.handleAddItem on a list whose screen holds removedFromServer
\* (read from the registry when the screen loads and at every state-changed
\* event): the item is appended to the view with item_id null and the view is
\* saved with saveStoredItems(listId, buildStoredItemsFromViews(updated));
\* nothing is queued and nothing is sent
UiAddItemRemoved(l) ==
    /\ FindList(lists, l) # 0
    /\ lists[FindList(lists, l)].removedFromServer
    /\ Len(items[l]) < MaxLocalAdds
    /\ \E plain \in {p \in ItemPlains : p.flags = NoFlags} :
          items' = [items EXCEPT ![l] =
                       Append(@, [itemId |-> NULL, label |-> plain.label,
                                  flags |-> plain.flags])]
    /\ effects' = <<>>
    /\ UNCHANGED <<queue, lockRec, lists, srvVars, busVars, ioVars, clock, nextOpId,
                   syncVars, tickVars, auxVars>>

LocalAddInit ==
    /\ TickInit
    /\ \A l \in TickListIds : items[l] = <<>>
    /\ \A i \in 1..Len(lists) : ~lists[i].removedFromServer

LocalAddNext ==
    \/ TickStep
    \/ \E l \in TickListIds : UiAddItemRemoved(l)
    \/ \E l \in TickListIds : UiAddItemOffline(l)

LocalAddSpec == LocalAddInit /\ [][LocalAddNext]_vars

\* C24: every item stored with a null id in the cache of a list has a
\* create_item operation for that list, carrying its label, in the queue.
C24_NullIdHasPendingCreate ==
    \A l \in TickListIds : \A k \in 1..Len(items[l]) :
        items[l][k].itemId = NULL =>
            \E i \in 1..Len(queue) :
                /\ queue[i].type = "create_item"
                /\ queue[i].listId = l
                /\ CanDecrypt(queue[i].ciphertextB64)
                /\ DecryptJson(queue[i].ciphertextB64).label = items[l][k].label

\* the tick found that the service no longer holds list a and marked it;
\* the user then added an item to it: the cache holds the item with a null
\* id and the queue is empty
C24_Witness ==
    /\ lists[1].listId = "a" /\ lists[1].removedFromServer
    /\ "a" \notin srvLists
    /\ Len(items["a"]) = 1
    /\ items["a"][1].itemId = NULL
    /\ queue = <<>>

-----------------------------------------------------------------------------
(* QueueRaceSpec: a screen calling an enqueue function or
   updateCreateItemOpCipher while the Sync Worker calls removeOperations.
   Each function awaits loadQueue, changes the array it got and awaits
   saveQueue; the other caller may run between the two awaits. qHist.enqueued
   holds the ids of the operations whose enqueue call has returned and
   qHist.removed the ids whose removeOperations call has returned. *)

QueueRaceInit ==
    /\ queue = <<>>
    /\ nextOpId = 1
    /\ lists = <<[NewPendingList("a", MetaPlain("a").name) EXCEPT !.pendingCreate = FALSE]>>
    /\ items = [l \in ListIds |-> <<>>]
    /\ srvLists = {"a"}
    /\ srvItems = <<>>
    /\ srvRev = 0
    /\ mergeIn = NoMergeIn
    /\ qHist = [created |-> <<>>, synced |-> FALSE, enqueued |-> {}, removed |-> {}]
    /\ BusAtRest
    /\ IoAtRest
    /\ Quiescent

\* the variables a syncQueue call leaves alone
QueueRaceFrame ==
    UNCHANGED <<lockRec, lists, items, srvVars, busVars, ticks, screen, timers, clock, syncVars,
                tickVars, effects, mergeIn>>

\* enqueueCreateItem up to "const queue = await loadQueue()": the operation
\* is made, with its uuid, before the load
QueueRaceEnqueueLoad(l) ==
    /\ qio["ui"] = NoCall
    /\ nextOpId <= MaxQueueOps
    /\ \E plain \in {p \in ItemPlains : p.flags = NoFlags} :
          qio' = [qio EXCEPT !["ui"] =
                     [fn |-> "enqueue", loaded |-> queue, ids |-> {},
                      op |-> <<MkOp(nextOpId, "create_item", l, NULL,
                                    EncryptJson(plain).ciphertextB64,
                                    EncryptJson(plain).nonceB64)>>]]
    /\ nextOpId' = nextOpId + 1
    /\ UNCHANGED <<queue, qHist>>
    /\ QueueRaceFrame

\* enqueueCreateItem from "queue.push(op)" on: saveQueue writes the array
\* that was loaded, with the operation appended
QueueRaceEnqueueSave ==
    /\ qio["ui"].fn = "enqueue"
    /\ queue' = Enqueue(qio["ui"].loaded, qio["ui"].op[1])
    /\ qHist' = [qHist EXCEPT !.enqueued = @ \cup {qio["ui"].op[1].id}]
    /\ qio' = [qio EXCEPT !["ui"] = NoCall]
    /\ UNCHANGED nextOpId
    /\ QueueRaceFrame

\* updateCreateItemOpCipher up to "const queue = await loadQueue()", for an
\* operation of a pending item of the screen
QueueRaceUpdateLoad(opId) ==
    /\ qio["ui"] = NoCall
    /\ opId \in qHist.enqueued
    /\ qio' = [qio EXCEPT !["ui"] =
                   [fn |-> "update", loaded |-> queue, ids |-> {opId}, op |-> <<>>]]
    /\ UNCHANGED <<queue, qHist, nextOpId>>
    /\ QueueRaceFrame

\* updateCreateItemOpCipher from findIndex on: it returns when the operation
\* is not in the array it loaded, else saveQueue writes that array with the
\* payload replaced
QueueRaceUpdateSave ==
    /\ qio["ui"].fn = "update"
    /\ LET opId == CHOOSE id \in qio["ui"].ids : TRUE
           ct == EncryptJson([label |-> "A", flags |-> Checked])
       IN IF FindCreateItem(qio["ui"].loaded, opId) = 0
          THEN UNCHANGED queue
          ELSE queue' = UpdateCreateItemOpCipher(qio["ui"].loaded, opId,
                                                 ct.ciphertextB64, ct.nonceB64)
    /\ qio' = [qio EXCEPT !["ui"] = NoCall]
    /\ UNCHANGED <<qHist, nextOpId>>
    /\ QueueRaceFrame

\* removeOperations(processedIds) up to "const queue = await loadQueue()",
\* processedIds being operations of the batch of the run
QueueRaceRemoveLoad(ids) ==
    /\ qio["worker"] = NoCall
    /\ ids # {}
    /\ ids \subseteq {op.id : op \in SeqToSet(Batch(queue))}
    /\ ids \subseteq qHist.enqueued
    /\ qio' = [qio EXCEPT !["worker"] =
                   [fn |-> "remove", loaded |-> queue, ids |-> ids, op |-> <<>>]]
    /\ UNCHANGED <<queue, qHist, nextOpId>>
    /\ QueueRaceFrame

\* removeOperations from the filter on: saveQueue writes the array that was
\* loaded, filtered
QueueRaceRemoveSave ==
    /\ qio["worker"].fn = "remove"
    /\ queue' = RemoveOperations(qio["worker"].loaded, qio["worker"].ids)
    /\ qHist' = [qHist EXCEPT !.removed = @ \cup qio["worker"].ids]
    /\ qio' = [qio EXCEPT !["worker"] = NoCall]
    /\ UNCHANGED nextOpId
    /\ QueueRaceFrame

QueueRaceNext ==
    \/ \E l \in ListIds : QueueRaceEnqueueLoad(l)
    \/ QueueRaceEnqueueSave
    \/ \E opId \in 1..MaxQueueOps : QueueRaceUpdateLoad(opId)
    \/ QueueRaceUpdateSave
    \/ \E ids \in SUBSET (1..MaxQueueOps) : QueueRaceRemoveLoad(ids)
    \/ QueueRaceRemoveSave

QueueRaceSpec == QueueRaceInit /\ [][QueueRaceNext]_vars

\* C25: every operation whose enqueue call has returned and that no
\* removeOperations call, returned or in flight, was asked to remove is in
\* the persisted queue, and no operation that a returned removeOperations
\* call removed is in it.
C25_NoLostNoResurrected ==
    /\ \A id \in qHist.enqueued \ (qHist.removed \cup qio["worker"].ids) :
          \E i \in 1..Len(queue) : queue[i].id = id
    /\ \A id \in qHist.removed :
          \A i \in 1..Len(queue) : queue[i].id # id

\* no call is in flight, the enqueue of operation 2 has returned, nobody
\* asked to remove it, and the persisted queue does not hold it
C25_Witness ==
    /\ qio = [c \in QCallers |-> NoCall]
    /\ 2 \in qHist.enqueued
    /\ qHist.removed = {1}
    /\ \A i \in 1..Len(queue) : queue[i].id # 2

-----------------------------------------------------------------------------
(* EditSpec: the user toggling a flag of an item added offline while the
   Sync Worker is sending the item's create_item operation. Every syncQueue
   call is atomic here. qHist.created[1] holds the payload of the last
   rewrite of operation 1. *)

EditInit ==
    /\ queue = <<LiveOp(1, "a")>>
    /\ nextOpId = 2
    /\ lists = <<[NewPendingList("a", MetaPlain("a").name) EXCEPT !.pendingCreate = FALSE]>>
    /\ items = [l \in ListIds |-> <<>>]
    /\ srvLists = {"a"}
    /\ srvItems = <<>>
    /\ srvRev = 0
    /\ mergeIn = NoMergeIn
    /\ qHist = [created |-> <<[opId |-> 1, pos |-> 1,
                               ciphertextB64 |-> queue[1].ciphertextB64,
                               nonceB64 |-> queue[1].nonceB64, rewrites |-> 0]>>,
                synced |-> FALSE]
    /\ BusAtRest
    /\ IoAtRest
    /\ Quiescent

\* ListScreen.handleToggleFlag, case 1, while the run holds its batch and has
\* not yet emitted itemSynced for the operation: the item of the view is
\* still pendingCreate with its pendingOpId
EditWhileInFlight ==
    /\ pc["fg"] \in {"call", "apply"}
    /\ \E i \in 1..Len(run["fg"].batch) :
          /\ run["fg"].batch[i].id = qHist.created[1].opId
          /\ i >= run["fg"].i
    /\ QueueRewrite(1)

EditNext == SyncStep("fg") \/ EditWhileInFlight

EditSpec == EditInit /\ [][EditNext]_vars

\* C26: once the user has edited the item of a create_item operation, the
\* payload of the last edit is either the payload of the item the service
\* created for the operation or the payload of the operation in the queue.
C26_EditNotLost ==
    LET h == qHist.created[1]
    IN h.rewrites > 0 =>
          \/ \E i \in 1..Len(queue) :
                /\ queue[i].id = h.opId
                /\ queue[i].ciphertextB64 = h.ciphertextB64
          \/ \E k \in 1..Len(srvItems) :
                /\ srvItems[k].byOp = h.opId
                /\ srvItems[k].ciphertextB64 = h.ciphertextB64

\* the run has ended: the service holds the item as it was first queued,
\* the user's last edit set the flag, and the queue is empty
C26_Witness ==
    /\ pc["fg"] = "idle" /\ ~running["fg"]
    /\ queue = <<>>
    /\ Len(srvItems) = 1
    /\ srvItems[1].byOp = 1 /\ srvItems[1].acked
    /\ srvItems[1].ciphertextB64 = EncryptJson([label |-> "A", flags |-> NoFlags]).ciphertextB64
    /\ qHist.created[1].rewrites = 1
    /\ qHist.created[1].ciphertextB64 = EncryptJson([label |-> "A", flags |-> Checked]).ciphertextB64

-----------------------------------------------------------------------------
(* RegistrySpec: the writers of the list registry side by side. The tick
   loads the registry, awaits its fetches and writes the whole array back;
   meanwhile the Sync Worker acknowledges the creation of list a and the
   user creates, imports or removes list a. List b was imported earlier and
   has an item the tick has not fetched yet. *)

\* removeStoredList(listId): the registry it saves
RemoveStoredList(ls, listId) == SelectSeq(ls, LAMBDA l : l.listId # listId)

\* the entry App.ensureStoredList writes for a list opened from a link
ImportedList(l) ==
    [NewPendingList(l, "list.unnamed") EXCEPT !.pendingCreate = FALSE]

RegistryInit ==
    /\ \/ /\ lists = <<NewPendingList("a", MetaPlain("a").name), ImportedList("b")>>
          /\ queue = <<MkOp(1, "create_list", "a", NULL,
                            EncryptJson(MetaPlain("a")).ciphertextB64,
                            EncryptJson(MetaPlain("a")).nonceB64)>>
          /\ nextOpId = 2
       \/ /\ lists = <<ImportedList("b")>>
          /\ queue = <<>>
          /\ nextOpId = 1
    /\ items = [l \in TickListIds |-> <<>>]
    /\ srvLists = {"b"}
    /\ srvItems = <<TickRow("b", "good", 1)>>
    /\ srvRev = 1
    /\ mergeIn = NoMergeIn
    /\ qHist = NoQHist
    /\ BusAtRest
    /\ IoAtRest
    /\ Quiescent

\* App.ensureStoredList for a link to a list that is not in the registry
UiImportList(l) ==
    /\ FindList(lists, l) = 0
    /\ lists' = UpsertStoredList(lists, ImportedList(l))
    /\ effects' = <<>>
    /\ UNCHANGED <<queue, lockRec, items, srvVars, busVars, ioVars, clock, nextOpId,
                   syncVars, tickVars, auxVars>>

\* MyListsScreen.confirmDelete, "remove from this device"
UiRemoveList(l) ==
    /\ FindList(lists, l) # 0
    /\ lists' = RemoveStoredList(lists, l)
    /\ effects' = <<>>
    /\ UNCHANGED <<queue, lockRec, items, srvVars, busVars, ioVars, clock, nextOpId,
                   syncVars, tickVars, auxVars>>

RegistryNext ==
    \/ SyncStep("fg")
    \/ TickStep
    \/ UiCreateListOnline("a")
    \/ UiCreateListOffline("a")
    \/ UiImportList("a")
    \/ UiRemoveList("a")

RegistrySpec == RegistryInit /\ [][RegistryNext]_vars

\* the ids of the lists of a registry
RegistryIds(ls) == {ls[i].listId : i \in 1..Len(ls)}

\* C27: no step turns the pendingCreate of a registry entry from false to
\* true: once markListSynced has cleared it, the save of a tick that loaded
\* the registry earlier does not bring it back.
C27_PendingCreateStaysCleared ==
    [][\A i \in 1..Len(lists) : \A j \in 1..Len(lists') :
          (lists'[j].listId = lists[i].listId /\ ~lists[i].pendingCreate)
              => ~lists'[j].pendingCreate]_vars

\* the service holds list a, its create_list operation has left the queue,
\* and the tick has just saved a registry in which a is pendingCreate
C27_Witness ==
    /\ tpc = "idle"
    /\ effects = <<ListsChangedFx("tick")>>
    /\ queue = <<>>
    /\ nextOpId = 2
    /\ "a" \in srvLists
    /\ FindList(lists, "a") # 0
    /\ lists[FindList(lists, "a")].pendingCreate

\* C28: the registry save that ends a tick leaves the set of lists of the
\* registry as it finds it: it drops no list that was added since the tick
\* loaded the registry and brings back no list that was removed since.
C28_TickSaveKeepsMembership ==
    [][TickFinishes => RegistryIds(lists') = RegistryIds(lists)]_vars

\* list a was created offline while the tick was running: its create_list
\* operation is queued, and the tick has just saved a registry without it
C28_Witness ==
    /\ tpc = "idle"
    /\ effects = <<ListsChangedFx("tick")>>
    /\ Len(queue) = 1 /\ queue[1].type = "create_list" /\ queue[1].listId = "a"
    /\ pc["fg"] = "idle" /\ nextRunId = 1
    /\ RegistryIds(lists) = {"b"}

-----------------------------------------------------------------------------
(* OverlapSpec: two invocations of runHealthAndSyncOnce in flight at once,
   the one of the foreground timer and the one a push message starts, over
   one list whose item another client keeps updating. Each invocation has
   its own locals; the awaits of the loop body are the points where the
   other one runs. *)

TickIds == {"timer", "push"}

\* the locals of an invocation: those of NoTick, the list entry the loop body
\* is working on, and what its apiFetchItems returned
NoTickRun ==
    [pc |-> "idle", stored |-> <<>>, updated |-> <<>>, changed |-> FALSE, i |-> 0,
     cur |-> <<>>, snaps |-> <<>>, latest |-> NULL]

OverlapInit ==
    /\ lists = <<ImportedList("b")>>
    /\ items = [l \in TickListIds |-> <<>>]
    /\ srvLists = {"b"}
    /\ srvItems = <<TickRow("b", "good", 1)>>
    /\ srvRev = 1
    /\ queue = <<>>
    /\ nextOpId = 1
    /\ mergeIn = NoMergeIn
    /\ qHist = NoQHist
    /\ BusAtRest
    /\ qio = [c \in QCallers |-> NoCall]
    /\ ticks = [t \in TickIds |-> NoTickRun]
    /\ screen = NoScreen
    /\ timers = NoTimers
    /\ Quiescent

OverlapFrame ==
    UNCHANGED <<queue, lockRec, busVars, qio, screen, timers, clock, nextOpId, syncVars, tickVars,
                auxVars>>

\* const ok = await healthzWithTimeout(); emitHealth(ok); if (!ok) return [];
\* const stored = await loadStoredLists(); if (!stored.length) return [];
OverlapStart(t) ==
    /\ ticks[t].pc = "idle"
    /\ \E ok \in BOOLEAN :
          /\ ticks' = [ticks EXCEPT ![t] =
                IF ok /\ Len(lists) > 0
                THEN [NoTickRun EXCEPT !.pc = "list", !.stored = LoadStoredLists(lists),
                                       !.i = 1]
                ELSE NoTickRun]
          /\ effects' = <<CallFx("healthz", "tick", ok), HealthFx("tick", ok)>>
    /\ UNCHANGED <<lists, items, srvVars>>
    /\ OverlapFrame

\* the locals after the loop body pushed newL
OverlapPushed(r, newL, changed) ==
    [r EXCEPT !.updated = Append(@, newL),
              !.changed = @ \/ changed,
              !.i = IF r.i = Len(r.stored) THEN @ ELSE @ + 1,
              !.pc = IF r.i = Len(r.stored) THEN "save" ELSE "list",
              !.cur = <<>>, !.snaps = <<>>, !.latest = NULL]

\* the loop body up to the await of mergeRemoteItemsIntoLocal
OverlapFetch(t) ==
    /\ ticks[t].pc = "list"
    /\ LET r == ticks[t]
           l == r.stored[r.i]
           idle == TickSkips(l)
           callsMeta == ~idle /\ l.name = PLACEHOLDER_NAME
       IN \E metaOut \in (IF callsMeta THEN FetchOutcomes(l.listId) ELSE {"none"}),
             fetchOut \in FetchOutcomes(l.listId) :
            LET m == IF idle THEN [newL |-> l, changed |-> FALSE, skip |-> TRUE]
                     ELSE TickMeta(l, metaOut)
                latest == SrvLatestRev(l.listId)
                snaps == IF ~m.skip /\ fetchOut = "ok"
                         THEN Snapshots(SrvRows(l.listId, m.newL.lastRemoteRev))
                         ELSE <<>>
                f == IF m.skip THEN [newL |-> m.newL, changed |-> FALSE]
                     ELSE TickFetch(m.newL, fetchOut, latest)
            IN /\ m.skip => fetchOut = "other"
               /\ ticks' = [ticks EXCEPT ![t] =
                     IF Len(snaps) > 0
                     THEN [r EXCEPT !.pc = "merge", !.cur = m.newL, !.snaps = snaps,
                                    !.latest = latest, !.changed = @ \/ m.changed]
                     ELSE OverlapPushed(r, f.newL, m.changed \/ f.changed)]
               /\ effects' =
                     (IF callsMeta THEN <<FetchFx("getList", metaOut)>> ELSE <<>>)
                     \o (IF ~m.skip THEN <<FetchFx("fetchItems", fetchOut)>> ELSE <<>>)
    /\ UNCHANGED <<lists, items, srvVars>>
    /\ OverlapFrame

\* await mergeRemoteItemsIntoLocal(newL.listId, snapshots), then the
\* comparison of res.latest_rev with the entry's lastRemoteRev
OverlapMerge(t) ==
    /\ ticks[t].pc = "merge"
    /\ LET r == ticks[t]
           f == TickFetch(r.cur, "ok", r.latest)
       IN /\ items' = [items EXCEPT ![r.cur.listId] =
                          MergeRemoteItemsIntoLocal(@, r.snaps)]
          /\ ticks' = [ticks EXCEPT ![t] = OverlapPushed(r, f.newL, f.changed)]
    /\ effects' = <<>>
    /\ UNCHANGED <<lists, srvVars>>
    /\ OverlapFrame

\* if (changed) { await saveStoredLists(updated); syncEvents.emitListsChanged(); }
OverlapSave(t) ==
    /\ ticks[t].pc = "save"
    /\ IF ticks[t].changed
       THEN lists' = ticks[t].updated /\ effects' = <<ListsChangedFx("tick")>>
       ELSE UNCHANGED lists /\ effects' = <<>>
    /\ ticks' = [ticks EXCEPT ![t] = NoTickRun]
    /\ UNCHANGED <<items, srvVars>>
    /\ OverlapFrame

\* another device's update of item 1 reaching the service
OtherClientUpdates ==
    \E plain \in ItemPlains :
       LET op == MkOp(0, "update_item", "b", 1, EncryptJson(plain).ciphertextB64,
                      EncryptJson(plain).nonceB64)
       IN /\ SrvAccepts(op)
          /\ srvItems[1].ciphertextB64 # op.ciphertextB64
          /\ SrvApply(op, TRUE)
          /\ effects' = <<>>
          /\ UNCHANGED <<lists, items, ticks>>
          /\ OverlapFrame

OverlapNext ==
    \/ \E t \in TickIds :
          OverlapStart(t) \/ OverlapFetch(t) \/ OverlapMerge(t) \/ OverlapSave(t)
    \/ OtherClientUpdates

OverlapSpec == OverlapInit /\ [][OverlapNext]_vars

\* no invocation of the tick is in flight
TicksFinished == \A t \in TickIds : ticks[t].pc = "idle"

\* the cache of a list shows the service's row i as the service holds it
CacheReflects(cache, i) ==
    IF srvItems[i].deleted THEN CachedAs(cache, i) = {}
    ELSE CachedAs(cache, i) =
            {[itemId |-> i, label |-> DecryptJson(srvItems[i].ciphertextB64).label,
              flags |-> DecryptJson(srvItems[i].ciphertextB64).flags]}

\* C29: when no tick is in flight, the cache of every list whose persisted
\* lastRemoteRev is r shows every row of the list whose revision is at most
\* r as the service holds it.
C29_CursorCoversCache ==
    TicksFinished =>
       \A k \in 1..Len(lists) : \A i \in 1..Len(srvItems) :
          (/\ srvItems[i].listId = lists[k].listId
           /\ lists[k].lastRemoteRev # NULL
           /\ srvItems[i].rev <= lists[k].lastRemoteRev)
             => CacheReflects(items[lists[k].listId], i)

\* both ticks are over, the cursor of list b is at the revision of the
\* other device's update, and the cache shows the item as it was before it
C29_Witness ==
    /\ TicksFinished
    /\ srvRev = 2
    /\ lists[1].lastRemoteRev = 2
    /\ srvItems[1].rev = 2
    /\ CachedAs(items["b"], 1) =
          {[itemId |-> 1, label |-> TickPlain.label, flags |-> TickPlain.flags]}
    /\ DecryptJson(srvItems[1].ciphertextB64) # TickPlain

-----------------------------------------------------------------------------
(* CursorSpec: one invocation of runHealthAndSyncOnce at a time over one
   list, with the ways it can fall short of its registry save: the fetch is
   rejected, mergeRemoteItemsIntoLocal throws, or the process is stopped. *)

\* the mutant of the catch around the item fetch that takes the fetch for done
FetchCatchAdvances(l, msg, latest) ==
    [newL |-> [l EXCEPT !.lastRemoteRev = latest], changed |-> TRUE]

\* "catch (e)" around the item fetch and the merge, entered with the message
\* msg after the fetch had reported latest
FetchCatch(l, msg, latest) ==
    IF IsNotFoundError(msg)
    THEN [newL |-> [l EXCEPT !.removedFromServer = TRUE], changed |-> TRUE]
    ELSE [newL |-> l, changed |-> FALSE]

\* the item rows the service may hold for list b
CursorRowSeqs ==
    {rows \in TickRowSeqs : Len(rows) >= 1 /\ \A i \in 1..Len(rows) : rows[i].listId = "b"}

CursorInit ==
    /\ lists \in {<<[ImportedList("b") EXCEPT !.name = n]>> :
                    n \in {"list.unnamed", PLACEHOLDER_NAME}}
    /\ items = [l \in TickListIds |-> <<>>]
    /\ srvLists = {"b"}
    /\ srvItems \in CursorRowSeqs
    /\ srvRev = Len(srvItems)
    /\ queue = <<>>
    /\ nextOpId = 1
    /\ mergeIn = NoMergeIn
    /\ qHist = NoQHist
    /\ BusAtRest
    /\ qio = [c \in QCallers |-> NoCall]
    /\ ticks = [t \in TickIds |-> NoTickRun]
    /\ screen = NoScreen
    /\ timers = NoTimers
    /\ Quiescent

\* loadStoredItems or saveStoredItems rejects inside mergeRemoteItemsIntoLocal:
\* the cache keeps what it held and the catch of the loop body runs
OverlapMergeFails(t) ==
    /\ ticks[t].pc = "merge"
    /\ LET r == ticks[t]
           f == FetchCatch(r.cur, MsgOther, r.latest)
       IN ticks' = [ticks EXCEPT ![t] = OverlapPushed(r, f.newL, f.changed)]
    /\ effects' = <<CallFailedFx("mergeRemoteItemsIntoLocal", "tick", MsgOther)>>
    /\ UNCHANGED <<lists, items, srvVars>>
    /\ OverlapFrame

\* the process is stopped while the invocation is in flight: its locals are
\* gone, what AsyncStorage holds stays
ProcessStops(t) ==
    /\ ticks[t].pc # "idle"
    /\ ticks' = [ticks EXCEPT ![t] = NoTickRun]
    /\ effects' = <<>>
    /\ UNCHANGED <<lists, items, srvVars>>
    /\ OverlapFrame

CursorNext ==
    \/ OverlapStart("timer")
    \/ OverlapFetch("timer")
    \/ OverlapMerge("timer")
    \/ OverlapMergeFails("timer")
    \/ OverlapSave("timer")
    \/ ProcessStops("timer")
    \/ OtherClientUpdates

CursorSpec == CursorInit /\ [][CursorNext]_vars

\* the rows of the service the cache of list k does not show as the service
\* holds them, those the tick cannot decrypt left out
NotMerged(k) ==
    {i \in 1..Len(srvItems) :
        /\ srvItems[i].listId = lists[k].listId
        /\ srvItems[i].deleted \/ CanDecrypt(srvItems[i].ciphertextB64)
        /\ ~CacheReflects(items[lists[k].listId], i)}

\* the fetch of the loop body or its merge has just failed
FetchOrMergeFailed ==
    /\ effects' # <<>>
    /\ effects'[Len(effects')] \in
          {CallFailedFx("fetchItems", "tick", MsgOther),
           CallFailedFx("mergeRemoteItemsIntoLocal", "tick", MsgOther)}

\* a failed fetch or merge hands the entry on with the lastRemoteRev it was
\* loaded with, and only the step that ends a tick writes the registry
FailureKeepsCursor ==
    /\ FetchOrMergeFailed =>
          ticks'["timer"].updated[1].lastRemoteRev
             = ticks["timer"].stored[1].lastRemoteRev
    /\ ticks["timer"].pc # "save" => lists' = lists

\* C30: the persisted lastRemoteRev of a list never passes a row the item
\* cache has not taken in, so a row that is not merged is returned by the
\* next fetch with since_rev = lastRemoteRev; a failed fetch or merge hands
\* the entry on with the lastRemoteRev it was loaded with, and a step that
\* does not end a tick (a process stop included) leaves the registry as it
\* is.
C30_CursorFollowsMerge ==
    /\ [](\A k \in 1..Len(lists) : \A i \in NotMerged(k) :
             srvItems[i].rev > lists[k].lastRemoteRev)
    /\ [][FailureKeepsCursor]_vars

\* the merge of a tick failed, the tick saved nothing, and the row it had
\* fetched is still ahead of the persisted cursor
C30_Witness ==
    /\ ticks["timer"].pc = "save"
    /\ effects = <<CallFailedFx("mergeRemoteItemsIntoLocal", "tick", MsgOther)>>
    /\ ~ticks["timer"].changed
    /\ 1 \in NotMerged(1)
    /\ lists[1].lastRemoteRev = NULL

-----------------------------------------------------------------------------
(* BatchSpec: the Sync Worker of the foreground context over the queues
   that offline use of one list leaves: updates and a deletion of item 1,
   which the service holds, and creations. The service and the network may
   answer each request in any way. qHist.created keeps the queue as the
   user left it. *)

MaxBatchOps == 4       \* operations in the queue when the first run starts

\* what the user did to list a while offline
BatchKinds == {"check", "uncheck", "delete", "add"}

\* the operation the enqueue function made for the k-th thing the user did
BatchOp(id, kind) ==
    CASE kind = "check" ->
            MkOp(id, "update_item", "a", 1,
                 EncryptJson([label |-> "A", flags |-> Checked]).ciphertextB64,
                 EncryptJson([label |-> "A", flags |-> Checked]).nonceB64)
      [] kind = "uncheck" ->
            MkOp(id, "update_item", "a", 1,
                 EncryptJson([label |-> "A", flags |-> NoFlags]).ciphertextB64,
                 EncryptJson([label |-> "A", flags |-> NoFlags]).nonceB64)
      [] kind = "delete" -> MkOp(id, "delete_item", "a", 1, NoCipher, NoNonce)
      [] kind = "add" -> LiveOp(id, "a")

BatchQueues ==
    {[i \in 1..Len(ks) |-> BatchOp(i, ks[i])] :
        ks \in {s \in SeqsUpTo(BatchKinds, MaxBatchOps) : Len(s) > 0}}

BatchInit ==
    /\ queue \in BatchQueues
    /\ nextOpId = Len(queue) + 1
    /\ lists = <<[NewPendingList("a", "A") EXCEPT !.pendingCreate = FALSE]>>
    /\ items = [l \in ListIds |-> <<>>]
    /\ srvLists = {"a"}
    /\ srvItems = <<[listId |-> "a",
                     ciphertextB64 |-> EncryptJson([label |-> "A", flags |-> NoFlags]).ciphertextB64,
                     nonceB64 |-> FixedNonce, rev |-> 1, deleted |-> FALSE,
                     byOp |-> 0, acked |-> TRUE]>>
    /\ srvRev = 1
    /\ mergeIn = NoMergeIn
    /\ qHist = [created |-> queue, synced |-> FALSE]
    /\ BusAtRest
    /\ IoAtRest
    /\ Quiescent

BatchNext == SyncStep("fg")

BatchSpec == BatchInit /\ [][BatchNext]_vars

\* the operation whose remote call context c is awaiting or has just had
\* settled
Current(c) == run[c].batch[run[c].i]

\* the operations queued ahead of op for the item op is about, which the run
\* of context c has not marked as processed
PendingAhead(c, op) ==
    {j \in 1..Len(queue) :
        /\ \E k \in 1..Len(queue) : queue[k].id = op.id /\ j < k
        /\ queue[j].listId = op.listId
        /\ queue[j].itemId = op.itemId
        /\ queue[j].id \notin SeqToSet(run[c].processedIds)}

\* C31: the service carries out the request of a queued operation on an item
\* only when no operation enqueued earlier for the same item is still to be
\* carried out, so the payload of the operation enqueued last is what the
\* item ends with, also after an earlier one failed and was retried.
C31_RemoteEffectsInEnqueueOrder ==
    [][\A c \in Ctx :
          (pc[c] = "call" /\ srvItems' # srvItems /\ Current(c).itemId # NULL)
              => PendingAhead(c, Current(c)) = {}]_vars

\* the user checked item 1 and then unchecked it; both updates have been
\* carried out once and have left the queue, and the service holds the item
\* as checked
C31_Witness ==
    /\ Len(qHist.created) = 2
    /\ qHist.created[1] = BatchOp(1, "check")
    /\ qHist.created[2] = BatchOp(2, "uncheck")
    /\ queue = <<>>
    /\ pc["fg"] = "idle"
    /\ srvItems[1].rev = 3
    /\ ~srvItems[1].deleted
    /\ srvItems[1].ciphertextB64 = BatchOp(1, "check").ciphertextB64

\* the item-synced events among the events fx
ItemSyncedIn(fx) ==
    SelectSeq(fx, LAMBDA e : e.kind = "event" /\ e.name = "itemSynced")

\* the loop iteration of context c ends: the call of Current(c) has settled
\* and the try block or the catch block has run
Applies(c) == pc[c] = "apply" /\ pc'[c] # "apply"

\* the row the service holds for item, at the revision item carries
SrvHolds(item, listId) ==
    /\ item.item_id \in 1..Len(srvItems)
    /\ srvItems[item.item_id].listId = listId
    /\ srvItems[item.item_id].rev = item.rev

ItemMissing(c) ==
    /\ Current(c).type \in {"update_item", "delete_item"}
    /\ ~run[c].res.ok
    /\ IsItemNotFound(run[c].res.msg)

\* the removal that ends the batch of context c
Removes(c) == pc[c] = "remove" /\ pc'[c] # "remove"

C35_DeleteAlwaysTerminal ==
    [][\A c \in Ctx :
          /\ (Applies(c) /\ Current(c).type = "delete_item") =>
                Current(c).id \in SeqToSet(run'[c].processedIds)
          /\ Removes(c) =>
                \A k \in 1..run[c].i :
                   run[c].batch[k].type = "delete_item"
                      => \A j \in 1..Len(queue') : queue'[j].id # run[c].batch[k].id]_vars

\* the run that attempted the deletion of item 1 is over: the call was
\* rejected by the network, the item is on the service and the operation is
\* still queued
C35_Witness ==
    /\ qHist.created = <<BatchOp(1, "delete")>>
    /\ pc["fg"] = "release"
    /\ run["fg"].i = 1
    /\ run["fg"].res = Rejected(MsgOther)
    /\ run["fg"].processedIds = <<>>
    /\ queue = qHist.created
    /\ ~srvItems[1].deleted

\* the entries of the queue behind the third
BeyondBatch(q) == SubSeq(q, BATCH_SIZE + 1, Len(q))

\* s is what t ends with
IsSuffix(s, t) ==
    Len(s) <= Len(t) /\ s = SubSeq(t, Len(t) - Len(s) + 1, Len(t))

\* C36: a run takes as its batch the first three entries of the queue it
\* read, or all of them when there are fewer; it calls for the entries of
\* the batch one after the other in that order and for nothing else; and
\* no step of the run changes or removes an entry that was behind the third.
C36_BatchOfThreeOldest ==
    [][\A c \in Ctx :
          /\ (pc[c] = "load" /\ pc'[c] = "call") =>
                /\ Len(run'[c].batch) = IF Len(queue) < 3 THEN Len(queue) ELSE 3
                /\ \A k \in 1..Len(run'[c].batch) : run'[c].batch[k] = queue[k]
                /\ run'[c].i = 1
          /\ pc[c] = "call" =>
                /\ run[c].i \in 1..Len(run[c].batch) /\ Len(run[c].batch) <= 3
                /\ srvItems' # srvItems => SrvAccepts(Current(c))
                /\ run'[c].batch = run[c].batch /\ run'[c].i = run[c].i
          /\ Applies(c) => run'[c].i \in {run[c].i, run[c].i + 1}
          /\ IsSuffix(BeyondBatch(queue), queue')]_vars

\* a run over a queue of four has had its three calls acknowledged and
\* removed the three operations: the fourth is the queue
C36_Witness ==
    /\ pc["fg"] = "release"
    /\ Len(qHist.created) = 4
    /\ Len(run["fg"].batch) = 3
    /\ Len(run["fg"].processedIds) = 3
    /\ queue = <<qHist.created[4]>>

-----------------------------------------------------------------------------
(* ScreenSpec: the Sync Worker of the foreground context and the user on
   list a, which the service holds: the user opens the list, adds items
   while the service cannot be reached, and goes back to the list of lists.
   The Sync Worker's timer runs whatever screen is shown. *)

ScreenInit ==
    /\ queue = <<>>
    /\ nextOpId = 1
    /\ lists = <<[NewPendingList("a", "A") EXCEPT !.pendingCreate = FALSE]>>
    /\ items = [l \in ListIds |-> <<>>]
    /\ srvLists = {"a"}
    /\ srvItems = <<>>
    /\ srvRev = 0
    /\ mergeIn = NoMergeIn
    /\ qHist = NoQHist
    /\ BusAtRest
    /\ IoAtRest
    /\ Quiescent

ScreenFrame ==
    UNCHANGED <<lockRec, lists, items, srvVars, busVars, qio, ticks, timers, clock,
                syncVars, tickVars, auxVars>>

\* the offline part of load(): the cached items, then one pending view for
\* each create_item operation the queue holds for the list
ScreenMount(l) ==
    /\ screen = NoScreen
    /\ FindList(lists, l) # 0
    /\ LET cached == [k \in 1..Len(items[l]) |->
                        ItemView(items[l][k].itemId, items[l][k], FALSE, NULL)]
           ops == SelectSeq(queue, LAMBDA op : op.type = "create_item" /\ op.listId = l)
           pending == [k \in 1..Len(ops) |->
                         ItemView(NULL, DecryptJson(ops[k].ciphertextB64), TRUE, ops[k].id)]
       IN screen' = [listId |-> l, views |-> cached \o pending]
    /\ effects' = <<>>
    /\ UNCHANGED <<queue, nextOpId>>
    /\ ScreenFrame

\* the screen is left: the cleanup of its effects unsubscribes the handlers
ScreenUnmount ==
    /\ screen # NoScreen
    /\ screen' = NoScreen
    /\ effects' = <<>>
    /\ UNCHANGED <<queue, nextOpId>>
    /\ ScreenFrame

\* handleAddItem when apiCreateItem rejected: enqueueCreateItem, then the
\* pending view is appended
ScreenAddItemOffline ==
    /\ screen # NoScreen
    /\ nextOpId <= MaxOps
    /\ LET plain == [label |-> "A", flags |-> NoFlags]
       IN /\ queue' = Enqueue(queue, MkOp(nextOpId, "create_item", screen.listId, NULL,
                                          EncryptJson(plain).ciphertextB64,
                                          EncryptJson(plain).nonceB64))
          /\ screen' = [screen EXCEPT !.views =
                           Append(@, ItemView(NULL, plain, TRUE, nextOpId))]
    /\ nextOpId' = nextOpId + 1
    /\ effects' = <<CallFailedFx("apiCreateItem", "ui", MsgOther)>>
    /\ ScreenFrame

ScreenNext ==
    \/ SyncStep("fg")
    \/ ScreenMount("a")
    \/ ScreenUnmount
    \/ ScreenAddItemOffline

ScreenSpec == ScreenInit /\ [][ScreenNext]_vars

\* the lastSeenRev the registry holds for a list
StoredRev(ls, listId) == ls[FindList(ls, listId)].lastSeenRev

\* C32: the loop iteration of a create_item whose call resolved leaves the
\* item cache of the list with an item that carries the id the service
\* assigned, and the registry entry of the list with the returned revision.
C32_CreateRecordedLocally ==
    [][\A c \in Ctx :
          (Applies(c) /\ run[c].res.ok /\ Current(c).type = "create_item") =>
             /\ CachedAs(items'[Current(c).listId], run[c].res.item_id) # {}
             /\ StoredRev(lists', Current(c).listId) = run[c].res.rev]_vars

\* the user added an item offline and left the list; the creation has been
\* acknowledged as item 1 at revision 1, the registry holds the revision,
\* and the item cache of the list is empty
C32_Witness ==
    /\ screen = NoScreen
    /\ effects = <<ItemSyncedFx("fg", "a", 1, [item_id |-> 1, rev |-> 1])>>
    /\ StoredRev(lists, "a") = 1
    /\ items["a"] = <<>>
    /\ Len(srvItems) = 1 /\ srvItems[1].byOp = 1

-----------------------------------------------------------------------------
(* UnlockSpec: the Sync Worker of both contexts with releaseLock taken at
   its two awaits (getItem, then removeItem when the record read is the
   run's own), errors thrown inside the try block of runSyncOnce, storage
   that may reject releaseLock's calls, and the clock *)

\* releaseLock: parsed?.owner === runId for the record getItem returned
OwnsLock(raw, runId) == raw # NoLock /\ raw.owner = runId

\* the end of the finally block: globalState.running = false, and
\* runSyncOnce returns
RunEnds(c) ==
    /\ running' = [running EXCEPT ![c] = FALSE]
    /\ run' = [run EXCEPT ![c] = NoRun]
    /\ pc' = [pc EXCEPT ![c] = "idle"]

\* finally { await releaseLock(runId) ...: AsyncStorage.getItem(LOCK_KEY)
\* resolves; removeItem is awaited next when the record is the run's own
ReleaseGet(c) ==
    /\ pc[c] = "release"
    /\ IF OwnsLock(lockRec, run[c].runId)
       THEN /\ pc' = [pc EXCEPT ![c] = "unlock"]
            /\ UNCHANGED <<running, run>>
       ELSE RunEnds(c)
    /\ effects' = <<>>
    /\ UNCHANGED <<storeVars, srvVars, busVars, ioVars, clock, nextOpId, nextRunId, tickVars,
                   auxVars>>

\* releaseLock: AsyncStorage.removeItem(LOCK_KEY) resolves
ReleaseRemove(c) ==
    /\ pc[c] = "unlock"
    /\ lockRec' = NoLock
    /\ RunEnds(c)
    /\ effects' = <<>>
    /\ UNCHANGED <<queue, lists, items, srvVars, busVars, ioVars, clock, nextOpId, nextRunId,
                   tickVars, auxVars>>

\* releaseLock: getItem or removeItem rejects, "unlock error" is logged and
\* the finally block goes on
UnlockFails(c) ==
    /\ pc[c] \in {"release", "unlock"}
    /\ RunEnds(c)
    /\ effects' = <<SettledFx(c, TRUE)>>
    /\ UNCHANGED <<storeVars, srvVars, busVars, ioVars, clock, nextOpId, nextRunId, tickVars,
                   auxVars>>

\* list a created offline, its create_list operation queued, no worker yet
UnlockInit ==
    /\ lists = <<NewPendingList("a", MetaPlain("a").name)>>
    /\ queue = <<MkOp(1, "create_list", "a", NULL,
                      EncryptJson(MetaPlain("a")).ciphertextB64,
                      EncryptJson(MetaPlain("a")).nonceB64)>>
    /\ nextOpId = 2
    /\ lockRec = NoLock
    /\ items = [l \in ListIds |-> <<>>]
    /\ srvLists = {}
    /\ srvItems = <<>>
    /\ srvRev = 0
    /\ clock = SYNC_INTERVAL_MS
    /\ nextRunId = 1
    /\ mergeIn = NoMergeIn
    /\ qHist = NoQHist
    /\ BusAtRest
    /\ IoAtRest
    /\ Quiescent

UnlockNext ==
    \/ \E c \in Ctx : RunStart(c) \/ AcquireGet(c) \/ AcquireSet(c)
    \/ \E c \in Ctx : Health(c) \/ LoadQueue(c) \/ Call(c) \/ Apply(c) \/ Remove(c)
    \/ \E c \in Ctx : ReleaseGet(c) \/ ReleaseRemove(c)
    \/ \E c \in Ctx : SyncLoadFails(c) \/ SyncApplyThrows(c) \/ SyncRemoveFails(c)
    \/ \E c \in Ctx : UnlockFails(c)
    \/ AdvanceClock

UnlockSpec == UnlockInit /\ [][UnlockNext]_vars

\* the invocation of context c is past acquireLock
Acquired(c) == pc[c] \notin {"idle", "lock_get", "lock_set"}

\* the invocation of context c returns in this step
Returns(c) == pc[c] # "idle" /\ pc'[c] = "idle"

\* the invocation of context c returns at "run skipped, lock held"
Skipped(c) == pc[c] = "lock_get" /\ pc'[c] = "idle"

\* the stored lock record is that of a run still in progress
LockOfRunInProgress == \E d \in Ctx : pc[d] # "idle" /\ OwnsLock(lockRec, run[d].runId)

ExitReleases ==
    \A c \in Ctx :
       /\ (Acquired(c) /\ Returns(c)) =>
             /\ pc[c] \in {"release", "unlock"}
             /\ ~running'[c]
             /\ ~OwnsLock(lockRec', run[c].runId)
       /\ Skipped(c) => LockOfRunInProgress

\* C37: a run that acquired the lock returns only through the finally
\* block, which leaves the running flag reset and no lock record of this
\* run in storage, whichever way the try block was left; and a run is
\* skipped at the lock only for the record of a run still in progress.
C37_EveryExitReleases == [][ExitReleases]_vars

\* run 1 has returned and left its lock record in storage; one timer
\* period later run 2 is at acquireLock, where that record, not yet
\* expired, sends it away although no other run is in progress
C37_Witness ==
    /\ OwnsLock(lockRec, 1)
    /\ LockHeld(lockRec, clock)
    /\ clock = 2 * SYNC_INTERVAL_MS
    /\ pc["fg"] = "lock_get" /\ run["fg"].runId = 2
    /\ pc["bg"] = "idle" /\ ~running["bg"]

\* the invocation of context c completes releaseLock's removeItem
Unlocks(c) == pc[c] = "unlock" /\ pc'[c] = "idle" /\ lockRec' = NoLock

OwnerOnlyRemoves ==
    /\ (lockRec # NoLock /\ lockRec' = NoLock) =>
          \E c \in Ctx : Unlocks(c) /\ OwnsLock(lockRec, run[c].runId)
    /\ \A c \in Ctx : Skipped(c) => lockRec' = lockRec

\* C38: the stored lock record is removed only by the releaseLock of the
\* run that owns it at the removal, so a run never deletes the record of a
\* later run; and a run skipped because the lock was held leaves the
\* record as it was.
C38_OwnerOnlyRemoves == [][OwnerOnlyRemoves]_vars

\* the releaseLock of the background run has read its own record and
\* awaits removeItem, while the record stored now is that of the
\* foreground run, which is past acquireLock
C38_Witness ==
    /\ pc["bg"] = "unlock"
    /\ lockRec # NoLock /\ ~OwnsLock(lockRec, run["bg"].runId)
    /\ OwnsLock(lockRec, run["fg"].runId) /\ Acquired("fg")

-----------------------------------------------------------------------------
(* GuardSpec: runSyncOnce invoked in both contexts at any moment, by the
   interval timer or by triggerSyncNow, also while an invocation of the
   same context is in progress *)

\* runSyncOnce invoked while globalState.running is set: it returns at once
RunSkipped(c) ==
    /\ ~PassesGuard(running[c])
    /\ effects' = <<SettledFx(c, TRUE)>>
    /\ UNCHANGED <<storeVars, srvVars, busVars, ioVars, clock, nextOpId, syncVars, tickVars,
                   auxVars>>

GuardNext ==
    \/ \E c \in Ctx : SyncStep(c)
    \/ \E c \in Ctx : RunSkipped(c)
    \/ AdvanceClock

GuardSpec == UnlockInit /\ [][GuardNext]_vars

\* an invocation of context c gets past the running guard in this step
PassesIn(c) == run'[c].runId # NULL /\ run'[c].runId # run[c].runId

\* an invocation of context c returns at the running guard in this step
ReturnsAtGuard(c) == running[c] /\ effects' = <<SettledFx(c, TRUE)>>

OneRunPerContext ==
    \A c \in Ctx :
       /\ PassesIn(c) => pc[c] = "idle"
       /\ ReturnsAtGuard(c) =>
             /\ pc[c] # "idle"
             /\ UNCHANGED <<lockRec, queue, srvVars, lists, items, syncVars>>

\* C39: in a context an invocation of runSyncOnce gets past the running
\* guard only when no other invocation of that context is in progress, the
\* flag is set exactly while one is, and an invocation made during a run
\* returns without a change to the lock, the queue, the service or the run
\* in progress.
C39_OneRunPerContext ==
    /\ [](\A c \in Ctx : running[c] <=> pc[c] # "idle")
    /\ [][OneRunPerContext]_vars

\* the foreground run awaits the answer to its request when runSyncOnce is
\* invoked again in that context and returns at the guard
C39_Witness ==
    /\ pc["fg"] = "apply" /\ running["fg"]
    /\ effects = <<SettledFx("fg", TRUE)>>
    /\ OwnsLock(lockRec, run["fg"].runId)

-----------------------------------------------------------------------------
(* TimerSpec: App.tsx starting and stopping the foreground reconciliation
   worker as the application changes state. timers.id is
   foregroundIntervalId, timers.live the interval timers setInterval made
   and clearInterval has not cleared, timers.starting the calls of
   startForegroundSyncWorker that are past the guard and await loadSettings
   or the first tick, timers.app the handler's currentState. The registry
   is empty, so a tick is the probe and the health event alone. *)

MaxStarts == 3   \* calls of startForegroundSyncWorker that get past its guard

AppStates == {"active", "inactive", "background"}

\* the health event of the tick that the timer t, or the start call (NULL), ran
TickOf(t, ok) == [HealthFx("tick", ok) EXCEPT !.opId = t]

\* "if (foregroundIntervalId) return;", else the call goes on to its awaits
StartForegroundSyncWorker(tm) ==
    IF tm.id # NULL THEN tm ELSE [tm EXCEPT !.starting = @ + 1]

\* foregroundIntervalId = setInterval(...), in the try block or in the catch
SetForegroundInterval(tm) ==
    [tm EXCEPT !.id = tm.made + 1, !.live = @ \cup {tm.made + 1},
               !.made = @ + 1, !.starting = @ - 1]

\* stopForegroundSyncWorker
StopForegroundSyncWorker(tm) ==
    IF tm.id # NULL THEN [tm EXCEPT !.live = @ \ {tm.id}, !.id = NULL] ELSE tm

TimerFrame ==
    UNCHANGED <<storeVars, srvVars, busVars, qio, ticks, screen, clock, nextOpId, syncVars,
                tickVars, auxVars>>

\* the App component has mounted: its effect has called
\* startForegroundSyncWorker(), which awaits loadSettings
TimerInit ==
    /\ queue = <<>>
    /\ nextOpId = 1
    /\ lists = <<>>
    /\ items = [l \in ListIds |-> <<>>]
    /\ srvLists = {}
    /\ srvItems = <<>>
    /\ srvRev = 0
    /\ mergeIn = NoMergeIn
    /\ qHist = NoQHist
    /\ effects = <<>>
    /\ BusAtRest
    /\ qio = [c \in QCallers |-> NoCall]
    /\ ticks = <<>>
    /\ screen = NoScreen
    /\ timers = StartForegroundSyncWorker(NoTimers)
    /\ Quiescent

\* handleAppStateChange(nextState)
AppStateChanges(next) ==
    /\ next # timers.app
    /\ next = "active" => timers.made + timers.starting < MaxStarts
    /\ timers' = IF next = "active"
                 THEN StartForegroundSyncWorker([timers EXCEPT !.app = next])
                 ELSE StopForegroundSyncWorker([timers EXCEPT !.app = next])
    /\ effects' = <<>>
    /\ TimerFrame

\* a call of startForegroundSyncWorker ends its awaits, the first tick
\* having found the service up or not, or having thrown, and sets the
\* interval
StartSettles ==
    /\ timers.starting > 0
    /\ timers' = SetForegroundInterval(timers)
    /\ \E ok \in BOOLEAN : effects' = <<TickOf(NULL, ok)>>
    /\ TimerFrame

\* the period of a live interval timer elapses: runHealthAndSyncOnce
TimerFires(t) ==
    /\ t \in timers.live
    /\ \E ok \in BOOLEAN : effects' = <<TickOf(t, ok)>>
    /\ UNCHANGED timers
    /\ TimerFrame

TimerNext ==
    \/ \E next \in AppStates : AppStateChanges(next)
    \/ StartSettles
    \/ \E t \in 1..MaxStarts : TimerFires(t)

TimerSpec == TimerInit /\ [][TimerNext]_vars

\* C40: at most one interval timer of the foreground worker is alive, and
\* none while the last call was stopForegroundSyncWorker (the application
\* is not active); a start call made while an earlier one awaits its first
\* tick makes no second timer, and no call sets a timer after such a stop.
C40_OneForegroundTimer ==
    /\ Cardinality(timers.live) <= 1
    /\ timers.app # "active" => timers.live = {}

\* two interval timers are alive, the first of them no longer reachable
\* through foregroundIntervalId, and both have run a tick
C40_Witness ==
    /\ timers.live = {1, 2}
    /\ timers.id = 2
    /\ timers.starting = 0
    /\ effects = <<TickOf(1, TRUE)>>

=============================================================================
